---- MODULE Spec2Model ----
(***************************************************************************)
(* Verification model of test-with: the file lock emitted by lock_macro,   *)
(* the program entry points emitted by runner / tokio_runner together with *)
(* the per-module _runtime_tests functions emitted by module, the          *)
(* condition predicates, and the function rewrite fn_macro.                *)
(*                                                                         *)
(* Text is modelled as a sequence of tokens: the empty string is <<>>,     *)
(* concatenation is \o, and a separator such as "," is a token of its own. *)
(***************************************************************************)
EXTENDS Integers, Sequences, FiniteSets, TLC

VARIABLES
    \* ---- file lock (code emitted by lock_macro) ----
    lock_attrs,        \* claimant -> the annotation's arguments, split on ','
    tmp_dir,           \* names of the marker files present in temp_dir()
    pc,                \* claimant -> position in the emitted test function:
                       \* "loop", "check", "body", "unlock", or finished as
                       \* "passed", "returned" or "panicked"
    i,                 \* claimant -> loop variable of `for i in 0..wait_time`
    test_with_lock,    \* claimant -> _test_with_lock.is_some()
    panic_msg,         \* claimant -> message of the panic that ended the test
    attempts,          \* claimant -> number of File::create_new calls made
    slept,             \* claimant -> seconds spent in thread::sleep
    body_runs          \* claimant -> number of times the guarded body started

lockVars == <<lock_attrs, tmp_dir, pc, i, test_with_lock, panic_msg,
              attempts, slept, body_runs>>

VARIABLES
    \* ---- generated runner programs (runner, tokio_runner, module) ----
    runner_kind,       \* "runner" or "tokio_runner"
    mod_names,         \* the modules named in the macro call, in list order
    main_pc,           \* position of main / of the running _runtime_tests
    cur,               \* index in mod_names of the module main is working on
    env_new,           \* module index -> TestEnv::default() calls
    env_drop,          \* module index -> times the module's TestEnv was dropped
    status,            \* test -> "idle", "running", "passed", "failed", "ignored"
    returned,          \* test -> the Result its check function returned
    no_env_tests,      \* the Vec no_env_tests of main
    batch,             \* the tests handed to the running libtest_with::run
    order,             \* tests of the running asynchronous _runtime_tests, in call order
    pos,               \* index in order of the next test to call
    failed,            \* counters of the running asynchronous _runtime_tests
    passed,
    ignored,
    exit_status        \* Running, or the status the process exited with

runnerVars == <<runner_kind, mod_names, main_pc, cur, env_new, env_drop, status,
                returned, no_env_tests, batch, order, pos, failed, passed, ignored,
                exit_status>>

VARIABLES
    \* ---- condition predicates (check_*_condition) ----
    cond,              \* the predicate evaluated at the annotation site
    attr_str,          \* its raw argument text
    host,              \* what the predicate observes of the machine
    cond_result,       \* Pending, Abort or the returned (satisfied, reason)
    is_module          \* whether the annotated item is a module

condVars == <<cond, attr_str, host, cond_result, is_module>>

VARIABLES
    \* ---- function rewrite (fn_macro) ----
    ign_msg,           \* whether the build enables the feature "ign-msg"
    input,             \* the annotated ItemFn
    check_condition,   \* the pair the predicate returned for this site
    fn_output          \* Pending, Abort or the emitted item

fnVars == <<ign_msg, input, check_condition, fn_output>>

VARIABLES
    \* ---- runtime check function (_check_<name> emitted by runtime_env) ----
    rt_attr,           \* the annotation's argument text, blanks removed
    rt_sig,            \* asyncness and declared output of the annotated fn
    rt_body,           \* the value the original body returns when it runs
    rt_env,            \* the variables set in the process environment
    rt_pc,             \* "check", "body", "returned", "reported", or "none"
    rt_body_runs,      \* number of calls of the original function
    rt_ret,            \* Pending or the Result the check function returned
    rt_count,          \* how the reporter counted it: passed, ignored, failed
    ignore_function,   \* what the predicate named by runtime_ignore_if returns
    ignore_calls       \* number of calls of that predicate

checkVars == <<rt_attr, rt_sig, rt_body, rt_env, rt_pc, rt_body_runs, rt_ret,
               rt_count, ignore_function, ignore_calls>>

VARIABLES
    \* ---- executable annotation, compile-time and runtime form ----
    exe_form,          \* which macro is expanded
    exe_attr,          \* the annotation's argument text, blanks removed
    exe_path,          \* the executables found on the search path
    exe_pc,            \* "expand", "probe", "done", or "none"
    exe_list,          \* the names split from the argument
    exe_idx,           \* index of the next name to probe
    exe_missing,       \* the names that did not resolve so far
    exe_probed,        \* the names handed to which(), in call order
    exe_result         \* Pending, Abort or the outcome

exeVars == <<exe_form, exe_attr, exe_path, exe_pc, exe_list, exe_idx,
             exe_missing, exe_probed, exe_result>>

VARIABLES
    \* ---- timezone predicate ----
    tz_attr,           \* the annotation's argument text
    local_minus_utc,   \* the host's offset from UTC, in seconds
    tz_pc,             \* "eval" until the predicate has been evaluated
    tz_result,         \* Pending, Abort or the returned (satisfied, reason)
    rt_tz_result       \* Pending, or what the runtime check function returned

tzVars == <<tz_attr, local_minus_utc, tz_pc, tz_result, rt_tz_result>>

VARIABLES
    \* ---- scan of a #[test_with::module] body ----
    scan_content,      \* the functions of the module with their attributes
    scan_pc,           \* "scan" until the module has been walked
    scan_result        \* Pending, Abort or the registered test_metas

scanVars == <<scan_content, scan_pc, scan_result>>

\* The sections above, and the ones added after them.
baseVars == <<lockVars, runnerVars, condVars, fnVars>>
extVars == <<checkVars, exeVars, tzVars, scanVars>>

vars == <<lockVars, runnerVars, condVars, fnVars, extVars>>

\* A value not produced yet, and a build ended by abort_call_site!.
Pending == [tag |-> "pending"]
Abort == [tag |-> "abort_call_site"]

----------------------------------------------------------------------------
(* Bounds *)
NumClaimants == 2
MaxWaitArg == 2

Claimants == 1..NumClaimants
LockNames == {"LOCK", "ANOTHER_LOCK"}

----------------------------------------------------------------------------
(* lock_macro: src/src/utils.rs *)

DefaultWaitTime == 60

NoPanic == "none"
AcquireMsg == "Fail to acquire the lock for the testcase"
UnlockMsg == "Fail to unlock the testcase"
BodyPanic == "panic raised by the guarded body"

\* The argument lists lock_macro accepts: a name, or a name and a number.
LockAttrs ==
    {<<n>> : n \in LockNames} \cup
    {<<n, w>> : n \in LockNames, w \in 0..MaxWaitArg}

lock_macro_default61(attrs) ==
    [lock_file |-> attrs[1],
     wait_time |-> IF Len(attrs) = 1 THEN DefaultWaitTime + 1 ELSE attrs[2]]

\* (lock_name, wait_time) and the marker path derived from the arguments.
lock_macro(attrs) ==
    [lock_file |-> attrs[1],
     wait_time |-> IF Len(attrs) = 1 THEN DefaultWaitTime ELSE attrs[2]]

lock_file(c) == lock_macro(lock_attrs[c]).lock_file
wait_time(c) == lock_macro(lock_attrs[c]).wait_time

create_truncating(file, dir) == [ok |-> TRUE, dir |-> dir \cup {file}]

\* std::fs::File::create_new: atomic create-if-absent.
create_new(file, dir) ==
    IF file \in dir
    THEN [ok |-> FALSE, dir |-> dir]
    ELSE [ok |-> TRUE, dir |-> dir \cup {file}]

remove_file_noop(file, dir) == [ok |-> file \in dir, dir |-> dir]

\* std::fs::remove_file: fails when the file does not exist.
remove_file(file, dir) ==
    IF file \in dir
    THEN [ok |-> TRUE, dir |-> dir \ {file}]
    ELSE [ok |-> FALSE, dir |-> dir]

\* The emitted code is the same for every test, so the argument lists of the
\* claimants are taken in one fixed order: by name, then by waiting time.
Rank(attrs) ==
    (IF attrs[1] = "LOCK" THEN 0 ELSE 1000) + lock_macro(attrs).wait_time

Ordered(all_attrs) ==
    \A c, d \in Claimants :
        c < d => Rank(all_attrs[c]) <= Rank(all_attrs[d])

LockStart ==
    /\ lock_attrs \in [Claimants -> LockAttrs]
    /\ Ordered(lock_attrs)
    /\ tmp_dir = {}
    /\ pc = [c \in Claimants |-> "loop"]
    /\ i = [c \in Claimants |-> 0]
    /\ test_with_lock = [c \in Claimants |-> FALSE]
    /\ panic_msg = [c \in Claimants |-> NoPanic]
    /\ attempts = [c \in Claimants |-> 0]
    /\ slept = [c \in Claimants |-> 0]
    /\ body_runs = [c \in Claimants |-> 0]

\* One iteration of `for i in 0..wait_time`: create_new, then break or sleep.
LockAttempt(c) ==
    /\ pc[c] = "loop"
    /\ i[c] < wait_time(c)
    /\ LET r == create_new(lock_file(c), tmp_dir) IN
         /\ tmp_dir' = r.dir
         /\ attempts' = [attempts EXCEPT ![c] = @ + 1]
         /\ IF r.ok
            THEN /\ test_with_lock' = [test_with_lock EXCEPT ![c] = TRUE]
                 /\ pc' = [pc EXCEPT ![c] = "check"]
                 /\ UNCHANGED <<i, slept>>
            ELSE /\ slept' = [slept EXCEPT ![c] = @ + 1]
                 /\ i' = [i EXCEPT ![c] = @ + 1]
                 /\ UNCHANGED <<test_with_lock, pc>>
    /\ UNCHANGED <<lock_attrs, panic_msg, body_runs>>
    /\ UNCHANGED <<runnerVars, condVars, fnVars, extVars>>

\* The range 0..wait_time is exhausted without a break.
LockLoopEnd(c) ==
    /\ pc[c] = "loop"
    /\ i[c] >= wait_time(c)
    /\ pc' = [pc EXCEPT ![c] = "check"]
    /\ UNCHANGED <<lock_attrs, tmp_dir, i, test_with_lock, panic_msg,
                   attempts, slept, body_runs>>
    /\ UNCHANGED <<runnerVars, condVars, fnVars, extVars>>

\* `if _test_with_lock.is_none() { panic!(..) }`
LockCheck(c) ==
    /\ pc[c] = "check"
    /\ IF test_with_lock[c]
       THEN /\ pc' = [pc EXCEPT ![c] = "body"]
            /\ body_runs' = [body_runs EXCEPT ![c] = @ + 1]
            /\ UNCHANGED panic_msg
       ELSE /\ pc' = [pc EXCEPT ![c] = "panicked"]
            /\ panic_msg' = [panic_msg EXCEPT ![c] = AcquireMsg]
            /\ UNCHANGED body_runs
    /\ UNCHANGED <<lock_attrs, tmp_dir, i, test_with_lock, attempts, slept>>
    /\ UNCHANGED <<runnerVars, condVars, fnVars, extVars>>

\* `#(#stmts)*`: the spliced statements run to their end, leave the function
\* through a `return`, or panic. Only the first reaches remove_file.
LockBody(c) ==
    /\ pc[c] = "body"
    /\ \E outcome \in {"completes", "returns", "panics"} :
         CASE outcome = "completes" ->
                /\ pc' = [pc EXCEPT ![c] = "unlock"]
                /\ UNCHANGED panic_msg
           [] outcome = "returns" ->
                /\ pc' = [pc EXCEPT ![c] = "returned"]
                /\ UNCHANGED panic_msg
           [] outcome = "panics" ->
                /\ pc' = [pc EXCEPT ![c] = "panicked"]
                /\ panic_msg' = [panic_msg EXCEPT ![c] = BodyPanic]
    /\ UNCHANGED <<lock_attrs, tmp_dir, i, test_with_lock, attempts, slept,
                   body_runs>>
    /\ UNCHANGED <<runnerVars, condVars, fnVars, extVars>>

\* `if remove_file(lock_file).is_err() { panic!(..) }`
LockRelease(c) ==
    /\ pc[c] = "unlock"
    /\ LET r == remove_file(lock_file(c), tmp_dir) IN
         /\ tmp_dir' = r.dir
         /\ IF r.ok
            THEN /\ pc' = [pc EXCEPT ![c] = "passed"]
                 /\ UNCHANGED panic_msg
            ELSE /\ pc' = [pc EXCEPT ![c] = "panicked"]
                 /\ panic_msg' = [panic_msg EXCEPT ![c] = UnlockMsg]
    /\ UNCHANGED <<lock_attrs, i, test_with_lock, attempts, slept, body_runs>>
    /\ UNCHANGED <<runnerVars, condVars, fnVars, extVars>>

LockStep ==
    \E c \in Claimants :
        \/ LockAttempt(c)
        \/ LockLoopEnd(c)
        \/ LockCheck(c)
        \/ LockBody(c)
        \/ LockRelease(c)

LockIdle ==
    /\ lock_attrs = <<>>
    /\ tmp_dir = {}
    /\ pc = <<>>
    /\ i = <<>>
    /\ test_with_lock = <<>>
    /\ panic_msg = <<>>
    /\ attempts = <<>>
    /\ slept = <<>>
    /\ body_runs = <<>>

----------------------------------------------------------------------------
(* module, runner, tokio_runner: src/src/runtime.rs *)

\* The modules listed in runner!(..), and the tests registered by all of them.
MaxMods == 2
MaxTests == 3

Running == -1

\* libtest_with::RUNTIME_IGNORE_PREFIX, the marker that starts a skip message.
RUNTIME_IGNORE_PREFIX == <<"RUNTIME_IGNORE_PREFIX">>

\* Result<(), libtest_with::Failed>; Failed::message() is an Option.
Some(text) == [some |-> TRUE, text |-> text]
Ok == [tag |-> "Ok"]
Err(msg) == [tag |-> "Err", message |-> Some(msg)]

\* What a generated _check_ function can return: Ok(()), a skip, a failure.
CheckResults ==
    {Ok,
     Err(RUNTIME_IGNORE_PREFIX \o <<"because variable NOTHING not found">>),
     Err(<<"()">>)}

\* test_metas of a module: one asyncness flag per registered function.
TestMetas == UNION {[1..n -> BOOLEAN] : n \in 0..MaxTests}

any_async(test_metas) == \E k \in 1..Len(test_metas) : test_metas[k]

\* The shape of _runtime_tests that module emits:
\* match (test_env_type, test_metas.iter().any(|m| m.1)).
module(test_env_type, test_metas) ==
    [test_env_type |-> test_env_type,
     test_metas |-> test_metas,
     is_async |-> any_async(test_metas)]

Modules == {module(e, t) : e \in BOOLEAN, t \in TestMetas}

\* runner! matches on a tuple, tokio_runner! awaits: a list compiles only
\* when every module has the matching shape of _runtime_tests.
Compiles(kind, mods) ==
    \A m \in 1..Len(mods) : mods[m].is_async = (kind = "tokio_runner")

TestsOf(mods, m) == {<<m, k>> : k \in 1..Len(mods[m].test_metas)}
AllTests(mods) == UNION {TestsOf(mods, m) : m \in 1..Len(mods)}

\* vec![ #(Trial::test(#test_names, #check_names),)* ]
trials(mods, m) == [k \in 1..Len(mods[m].test_metas) |-> <<m, k>>]

RECURSIVE SelectMetas(_, _, _, _)
SelectMetas(mods, m, k, flag) ==
    IF k > Len(mods[m].test_metas) THEN <<>>
    ELSE (IF mods[m].test_metas[k] = flag THEN <<(<<m, k>>)>> ELSE <<>>)
         \o SelectMetas(mods, m, k + 1, flag)

call_order_async_only(mods, m) == SelectMetas(mods, m, 1, TRUE)

call_order_sync_first(mods, m) ==
    SelectMetas(mods, m, 1, FALSE) \o SelectMetas(mods, m, 1, TRUE)

\* The asynchronous _runtime_tests calls the async checks, then the sync ones.
call_order(mods, m) ==
    SelectMetas(mods, m, 1, TRUE) \o SelectMetas(mods, m, 1, FALSE)

starts_with(msg, prefix) ==
    /\ Len(msg) >= Len(prefix)
    /\ SubSeq(msg, 1, Len(prefix)) = prefix

report_errors_failed(r) == IF r.tag = "Ok" THEN "passed" ELSE "failed"

\* How a returned Result is counted: ok, ignored (skip prefix), or FAILED.
report(r) ==
    IF r.tag = "Ok" THEN "passed"
    ELSE IF r.message.some /\ starts_with(r.message.text, RUNTIME_IGNORE_PREFIX)
         THEN "ignored"
         ELSE "failed"

Range(s) == {s[k] : k \in 1..Len(s)}

\* libtest_with::run returns its Conclusion once every trial has finished.
Finished(tests) == \A t \in tests : status[t] \in {"passed", "failed", "ignored"}
num_failed(tests) == Cardinality({t \in tests : status[t] = "failed"})

exit_if_failed_never(n) == FALSE

\* Conclusion::exit_if_failed: the process exits iff some trial failed.
exit_if_failed(n) == n > 0

drop_forget(counts, m) == counts

\* drop(env)
drop(counts, m) == [counts EXCEPT ![m] = @ + 1]

exit_code_ignores_failures(n) == 0

\* Conclusion::exit: the status of the final, pooled batch.
exit_code(n) == IF n > 0 THEN 101 ELSE 0

RunnerStart ==
    /\ runner_kind \in {"runner", "tokio_runner"}
    /\ mod_names \in UNION {[1..n -> Modules] : n \in 1..MaxMods}
    /\ Compiles(runner_kind, mod_names)
    /\ Cardinality(AllTests(mod_names)) <= MaxTests
    /\ main_pc = "module"
    /\ cur = 1
    /\ env_new = [m \in 1..Len(mod_names) |-> 0]
    /\ env_drop = [m \in 1..Len(mod_names) |-> 0]
    /\ status = [t \in AllTests(mod_names) |-> "idle"]
    /\ returned = [t \in AllTests(mod_names) |-> Pending]
    /\ no_env_tests = <<>>
    /\ batch = {}
    /\ order = <<>>
    /\ pos = 1
    /\ failed = 0
    /\ passed = 0
    /\ ignored = 0
    /\ exit_status = Running

RunnerIdle ==
    /\ runner_kind = "none"
    /\ mod_names = <<>>
    /\ main_pc = "none"
    /\ cur = 0
    /\ env_new = <<>>
    /\ env_drop = <<>>
    /\ status = <<>>
    /\ returned = <<>>
    /\ no_env_tests = <<>>
    /\ batch = {}
    /\ order = <<>>
    /\ pos = 0
    /\ failed = 0
    /\ passed = 0
    /\ ignored = 0
    /\ exit_status = Running

\* ---- main emitted by runner ----

\* `match m::_runtime_tests()`: build the fixture and start its batch, or
\* append the module's trials to no_env_tests.
MatchModule ==
    /\ runner_kind = "runner"
    /\ main_pc = "module"
    /\ cur <= Len(mod_names)
    /\ IF mod_names[cur].test_env_type
       THEN /\ env_new' = [env_new EXCEPT ![cur] = @ + 1]
            /\ batch' = Range(trials(mod_names, cur))
            /\ main_pc' = "run"
            /\ UNCHANGED <<no_env_tests, cur>>
       ELSE /\ no_env_tests' = no_env_tests \o trials(mod_names, cur)
            /\ cur' = cur + 1
            /\ UNCHANGED <<env_new, batch, main_pc>>
    /\ UNCHANGED <<runner_kind, mod_names, env_drop, status, returned, order, pos,
                   failed, passed, ignored, exit_status>>
    /\ UNCHANGED <<lockVars, condVars, fnVars, extVars>>

\* The delegate harness starts a trial of the batch it was given.
TrialStart(t) ==
    /\ main_pc \in {"run", "final_run"}
    /\ t \in batch
    /\ status[t] = "idle"
    /\ status' = [status EXCEPT ![t] = "running"]
    /\ UNCHANGED <<runner_kind, mod_names, main_pc, cur, env_new, env_drop, returned,
                   no_env_tests, batch, order, pos, failed, passed, ignored,
                   exit_status>>
    /\ UNCHANGED <<lockVars, condVars, fnVars, extVars>>

\* A running trial returns; the harness records its outcome.
TrialFinish(t) ==
    /\ main_pc \in {"run", "final_run"}
    /\ t \in batch
    /\ status[t] = "running"
    /\ \E r \in CheckResults :
         /\ returned' = [returned EXCEPT ![t] = r]
         /\ status' = [status EXCEPT ![t] = report(r)]
    /\ UNCHANGED <<runner_kind, mod_names, main_pc, cur, env_new, env_drop,
                   no_env_tests, batch, order, pos, failed, passed, ignored,
                   exit_status>>
    /\ UNCHANGED <<lockVars, condVars, fnVars, extVars>>

\* `libtest_with::run(&args, tests).exit_if_failed();`
BatchExitIfFailed ==
    /\ main_pc = "run"
    /\ Finished(batch)
    /\ IF exit_if_failed(num_failed(batch))
       THEN /\ exit_status' = 101
            /\ main_pc' = "exited"
       ELSE /\ main_pc' = "drop"
            /\ UNCHANGED exit_status
    /\ UNCHANGED <<runner_kind, mod_names, cur, env_new, env_drop, status, returned,
                   no_env_tests, batch, order, pos, failed, passed, ignored>>
    /\ UNCHANGED <<lockVars, condVars, fnVars, extVars>>

\* `drop(env);` ends the match arm of a fixture module.
DropEnv ==
    /\ main_pc = "drop"
    /\ env_drop' = drop(env_drop, cur)
    /\ batch' = {}
    /\ cur' = cur + 1
    /\ main_pc' = "module"
    /\ UNCHANGED <<runner_kind, mod_names, env_new, status, returned, no_env_tests,
                   order, pos, failed, passed, ignored, exit_status>>
    /\ UNCHANGED <<lockVars, condVars, fnVars, extVars>>

\* `libtest_with::run(&args, no_env_tests)` begins after the last module.
FinalRun ==
    /\ runner_kind = "runner"
    /\ main_pc = "module"
    /\ cur > Len(mod_names)
    /\ batch' = Range(no_env_tests)
    /\ main_pc' = "final_run"
    /\ UNCHANGED <<runner_kind, mod_names, cur, env_new, env_drop, status, returned,
                   no_env_tests, order, pos, failed, passed, ignored,
                   exit_status>>
    /\ UNCHANGED <<lockVars, condVars, fnVars, extVars>>

\* `.exit()` of the pooled batch.
FinalExit ==
    /\ main_pc = "final_run"
    /\ Finished(batch)
    /\ exit_status' = exit_code(num_failed(batch))
    /\ main_pc' = "exited"
    /\ UNCHANGED <<runner_kind, mod_names, cur, env_new, env_drop, status, returned,
                   no_env_tests, batch, order, pos, failed, passed, ignored>>
    /\ UNCHANGED <<lockVars, condVars, fnVars, extVars>>

\* ---- main emitted by tokio_runner, and the asynchronous _runtime_tests ----

should_exit_second_failure(n) == n > 1

\* `if failed > 0 { ...; std::process::exit(1); }`
should_exit(n) == n > 0

\* `#mod_names::_runtime_tests().await` begins: the fixture is built (when the
\* module declares TestEnv) and the counters start at zero.
AsyncModuleStart ==
    /\ runner_kind = "tokio_runner"
    /\ main_pc = "module"
    /\ cur <= Len(mod_names)
    /\ env_new' = IF mod_names[cur].test_env_type
                  THEN [env_new EXCEPT ![cur] = @ + 1]
                  ELSE env_new
    /\ failed' = 0
    /\ passed' = 0
    /\ ignored' = 0
    /\ order' = call_order(mod_names, cur)
    /\ pos' = 1
    /\ main_pc' = "call"
    /\ UNCHANGED <<runner_kind, mod_names, cur, env_drop, status, returned,
                   no_env_tests, batch, exit_status>>
    /\ UNCHANGED <<lockVars, condVars, fnVars, extVars>>

\* The next check function is called (and awaited, when asynchronous).
AsyncCheckCall ==
    /\ main_pc = "call"
    /\ pos <= Len(order)
    /\ status' = [status EXCEPT ![order[pos]] = "running"]
    /\ main_pc' = "await"
    /\ UNCHANGED <<runner_kind, mod_names, cur, env_new, env_drop, returned,
                   no_env_tests, batch, order, pos, failed, passed, ignored,
                   exit_status>>
    /\ UNCHANGED <<lockVars, condVars, fnVars, extVars>>

\* The check function returns; its Result is printed and counted.
AsyncCheckReturn ==
    /\ main_pc = "await"
    /\ \E r \in CheckResults :
         /\ returned' = [returned EXCEPT ![order[pos]] = r]
         /\ status' = [status EXCEPT ![order[pos]] = report(r)]
         /\ failed' = failed + (IF report(r) = "failed" THEN 1 ELSE 0)
         /\ passed' = passed + (IF report(r) = "passed" THEN 1 ELSE 0)
         /\ ignored' = ignored + (IF report(r) = "ignored" THEN 1 ELSE 0)
    /\ pos' = pos + 1
    /\ main_pc' = "call"
    /\ UNCHANGED <<runner_kind, mod_names, cur, env_new, env_drop,
                   no_env_tests, batch, order, exit_status>>
    /\ UNCHANGED <<lockVars, condVars, fnVars, extVars>>

\* After the last check: `drop(env);` in a module that declares TestEnv.
AsyncDropEnv ==
    /\ main_pc = "call"
    /\ pos > Len(order)
    /\ env_drop' = IF mod_names[cur].test_env_type
                   THEN drop(env_drop, cur)
                   ELSE env_drop
    /\ main_pc' = "summary"
    /\ UNCHANGED <<runner_kind, mod_names, cur, env_new, status, returned,
                   no_env_tests, batch, order, pos, failed, passed, ignored,
                   exit_status>>
    /\ UNCHANGED <<lockVars, condVars, fnVars, extVars>>

\* The summary line: exit(1) when a test failed, else return to main.
AsyncSummary ==
    /\ main_pc = "summary"
    /\ IF should_exit(failed)
       THEN /\ exit_status' = 1
            /\ main_pc' = "exited"
            /\ UNCHANGED cur
       ELSE /\ cur' = cur + 1
            /\ main_pc' = "module"
            /\ UNCHANGED exit_status
    /\ UNCHANGED <<runner_kind, mod_names, env_new, env_drop, status, returned,
                   no_env_tests, batch, order, pos, failed, passed, ignored>>
    /\ UNCHANGED <<lockVars, condVars, fnVars, extVars>>

\* block_on returns after the last module and main ends.
AsyncMainReturn ==
    /\ runner_kind = "tokio_runner"
    /\ main_pc = "module"
    /\ cur > Len(mod_names)
    /\ exit_status' = 0
    /\ main_pc' = "exited"
    /\ UNCHANGED <<runner_kind, mod_names, cur, env_new, env_drop, status,
                   returned, no_env_tests, batch, order, pos, failed, passed,
                   ignored>>
    /\ UNCHANGED <<lockVars, condVars, fnVars, extVars>>

RunnerStep ==
    \/ MatchModule
    \/ \E t \in AllTests(mod_names) : TrialStart(t)
    \/ \E t \in AllTests(mod_names) : TrialFinish(t)
    \/ BatchExitIfFailed
    \/ DropEnv
    \/ FinalRun
    \/ FinalExit
    \/ AsyncModuleStart
    \/ AsyncCheckCall
    \/ AsyncCheckReturn
    \/ AsyncDropEnv
    \/ AsyncSummary
    \/ AsyncMainReturn

----------------------------------------------------------------------------
(* Text helpers: str::split, str::trim_matches, str::trim, [String]::join *)

MaxEntries == 3

Quote == "\""
Space == " "

contains(s, tok) == \E k \in 1..Len(s) : s[k] = tok

RECURSIVE split(_, _)
\* str::split: the pieces between the occurrences of sep; never empty.
split(s, sep) ==
    IF ~contains(s, sep) THEN <<s>>
    ELSE LET k == CHOOSE k \in 1..Len(s) :
                      s[k] = sep /\ \A j \in 1..(k - 1) : s[j] # sep
         IN <<SubSeq(s, 1, k - 1)>> \o split(SubSeq(s, k + 1, Len(s)), sep)

RECURSIVE trim_start(_, _)
trim_start(s, tok) ==
    IF Len(s) > 0 /\ s[1] = tok THEN trim_start(Tail(s), tok) ELSE s

RECURSIVE trim_end(_, _)
trim_end(s, tok) ==
    IF Len(s) > 0 /\ s[Len(s)] = tok
    THEN trim_end(SubSeq(s, 1, Len(s) - 1), tok)
    ELSE s

\* str::trim_matches(tok), and str::trim as trim_matches(Space).
trim_matches(s, tok) == trim_end(trim_start(s, tok), tok)

RECURSIVE join(_, _)
join(list, sep) ==
    IF Len(list) = 0 THEN <<>>
    ELSE IF Len(list) = 1 THEN list[1]
    ELSE list[1] \o sep \o join(Tail(list), sep)

RECURSIVE ListsOf(_, _, _)
ListsOf(entries, seps, n) ==
    IF n = 1 THEN entries
    ELSE {l \o <<s>> \o e : l \in ListsOf(entries, seps, n - 1),
                            s \in seps, e \in entries}

\* The argument texts with 1..MaxEntries entries, separated by tokens of seps.
Lists(entries, seps) == UNION {ListsOf(entries, seps, n) : n \in 1..MaxEntries}

----------------------------------------------------------------------------
(* Condition predicates: src/src/file.rs, executable.rs, resource.rs, env.rs *)

Returned(satisfied, reason) ==
    [tag |-> "returned", satisfied |-> satisfied, reason |-> reason]

PathNames == {"/etc/hostname", "/etc", "/no_existing"}
ExeNames == {"pwd", "ls", "non_existing"}
VarNames == {"PWD", "HOME", "NOTHING"}

\* std::fs::metadata / Path::is_file see "absent", "file" or "dir".
entry_kind(h, p) ==
    IF Len(p) = 1 /\ p[1] \in DOMAIN h.fs THEN h.fs[p[1]] ELSE "absent"

\* which::which resolves a name found on the search path.
which(h, exe) == Len(exe) = 1 /\ exe[1] \in h.exes

\* std::env::var(name).is_ok()
env_var(h, name) == Len(name) = 1 /\ name[1] \in h.env

\* str::parse::<usize>
parse_usize(s) ==
    IF Len(s) # 1 THEN [ok |-> FALSE]
    ELSE CASE s[1] = "0" -> [ok |-> TRUE, v |-> 0]
           [] s[1] = "1" -> [ok |-> TRUE, v |-> 1]
           [] s[1] = "2" -> [ok |-> TRUE, v |-> 2]
           [] s[1] = "32" -> [ok |-> TRUE, v |-> 32]
           [] s[1] = "100" -> [ok |-> TRUE, v |-> 100]
           [] OTHER -> [ok |-> FALSE]

\* byte_unit::Byte::parse_str, in units of GB: a number and a unit.
parse_bytes(s) ==
    IF Len(s) # 2 \/ ~parse_usize(<<s[1]>>).ok THEN [ok |-> FALSE]
    ELSE CASE s[2] = "GB" -> [ok |-> TRUE, v |-> parse_usize(<<s[1]>>).v]
           [] s[2] = "TB" -> [ok |-> TRUE, v |-> 1000 * parse_usize(<<s[1]>>).v]
           [] OTHER -> [ok |-> FALSE]

check_path_condition(a, h) ==
    LET paths == split(a, ",")
        missing_paths ==
            SelectSeq(paths,
                LAMBDA path : entry_kind(h, trim_matches(path, Quote)) = "absent")
        ignore_msg ==
            IF Len(missing_paths) = 1
            THEN <<"because path not found: ">> \o missing_paths[1]
            ELSE <<"because following paths not found: \n">>
                 \o join(missing_paths, <<"\n">>) \o <<"\n">>
    IN Returned(Len(missing_paths) = 0, ignore_msg)

check_file_as_path(a, h) == check_path_condition(a, h)

check_file_condition(a, h) ==
    LET files == split(a, ",")
        missing_files ==
            SelectSeq(files,
                LAMBDA file : entry_kind(h, trim_matches(file, Quote)) # "file")
        ignore_msg ==
            IF Len(missing_files) = 1
            THEN <<"because file not found: ">> \o missing_files[1]
            ELSE <<"because following files not found: \n">>
                 \o join(missing_files, <<"\n">>) \o <<"\n">>
    IN Returned(Len(missing_files) = 0, ignore_msg)

check_executable_and_condition(a, h) ==
    LET executables == split(a, ",")
        missing_executables ==
            SelectSeq(executables,
                LAMBDA exe : ~which(h, trim_matches(exe, Quote)))
        ignore_msg ==
            IF Len(missing_executables) = 1
            THEN <<"because executable not found: ">> \o missing_executables[1]
            ELSE <<"because following executables not found: \n">>
                 \o join(missing_executables, <<"\n">>) \o <<"\n">>
    IN Returned(Len(missing_executables) = 0, ignore_msg)

check_executable_or_condition(a, h) ==
    LET executables == split(a, "||") IN
    IF \E k \in 1..Len(executables) :
           which(h, trim_matches(executables[k], Quote))
    THEN Returned(TRUE, <<>>)
    ELSE Returned(FALSE, <<"because none of executables can be found: ">> \o a)

check_executable_condition(a, h) ==
    LET has_and_cond == contains(a, ",")
        has_or_cond == contains(a, "||")
    IN IF has_and_cond /\ has_or_cond THEN Abort
       ELSE IF has_or_cond THEN check_executable_or_condition(a, h)
       ELSE check_executable_and_condition(a, h)

check_mem_condition(mem_size_str, h) ==
    IF ~parse_bytes(mem_size_str).ok THEN Abort
    ELSE Returned(h.total_memory >= parse_bytes(mem_size_str).v,
                  <<"because the memory less than ">> \o mem_size_str)

check_swap_condition(swap_size_str, h) ==
    IF ~parse_bytes(swap_size_str).ok THEN Abort
    ELSE Returned(h.total_swap >= parse_bytes(swap_size_str).v,
                  <<"because the swap less than ">> \o swap_size_str)

check_cpu_core_no_reason(core_limitation_str, h) ==
    IF ~parse_usize(core_limitation_str).ok THEN Abort
    ELSE Returned(h.cpus >= parse_usize(core_limitation_str).v, <<>>)

check_cpu_core_condition(core_limitation_str, h) ==
    IF ~parse_usize(core_limitation_str).ok THEN Abort
    ELSE Returned(h.cpus >= parse_usize(core_limitation_str).v,
                  <<"because the cpu core less than ">> \o core_limitation_str)

check_phy_core_condition(core_limitation_str, h) ==
    IF ~parse_usize(core_limitation_str).ok THEN Abort
    ELSE Returned(h.physical >= parse_usize(core_limitation_str).v,
                  <<"because the physical cpu core less than ">>
                  \o core_limitation_str)

\* The annotation cpu_core: mod_macro or fn_macro with the same predicate.
cpu_core(module_form, a, h) ==
    IF module_form THEN check_cpu_core_condition(a, h)
    ELSE check_cpu_core_condition(a, h)

\* The annotation phy_core: mod_macro is handed check_cpu_core_condition,
\* fn_macro is handed check_phy_core_condition.
phy_core(module_form, a, h) ==
    IF module_form THEN check_cpu_core_condition(a, h)
    ELSE check_phy_core_condition(a, h)

\* attr_str.split(',').map(str::trim)
sanitize_env_vars_attr(a) ==
    LET parts == split(a, ",")
    IN [k \in 1..Len(parts) |-> trim_matches(parts[k], Space)]

check_env_first_missing(a, h) ==
    LET var_names == sanitize_env_vars_attr(a)
        missing_vars == SelectSeq(var_names, LAMBDA name : ~env_var(h, name))
    IN Returned(Len(missing_vars) = 0,
                IF Len(missing_vars) = 0 THEN <<>>
                ELSE <<"because variable ">> \o missing_vars[1]
                     \o <<" not found">>)

check_env_condition(a, h) ==
    LET var_names == sanitize_env_vars_attr(a)
        missing_vars == SelectSeq(var_names, LAMBDA name : ~env_var(h, name))
        ignore_msg ==
            IF Len(missing_vars) = 0 THEN <<>>
            ELSE IF Len(missing_vars) = 1
            THEN <<"because variable ">> \o missing_vars[1] \o <<" not found">>
            ELSE <<"because following variables not found:\n">>
                 \o join(missing_vars, <<", ">>) \o <<"\n">>
    IN Returned(Len(missing_vars) = 0, ignore_msg)

check_no_env_negated_env(a, h) ==
    Returned(~check_env_condition(a, h).satisfied,
             IF check_env_condition(a, h).satisfied
             THEN <<"because variable ">> \o sanitize_env_vars_attr(a)[1]
                  \o <<" was found">>
             ELSE <<>>)

check_no_env_condition(a, h) ==
    LET var_names == sanitize_env_vars_attr(a)
        found_vars == SelectSeq(var_names, LAMBDA name : env_var(h, name))
        ignore_msg ==
            IF Len(found_vars) = 0 THEN <<>>
            ELSE IF Len(found_vars) = 1
            THEN <<"because variable ">> \o found_vars[1] \o <<" was found">>
            ELSE <<"because following variables were found:\n">>
                 \o join(found_vars, <<", ">>) \o <<"\n">>
    IN Returned(Len(found_vars) = 0, ignore_msg)

\* The machine a predicate runs on; each predicate reads one part of it.
DefaultHost ==
    [fs |-> [p \in {"/etc/hostname", "/etc"} |-> "absent"],
     exes |-> {},
     env |-> {},
     total_memory |-> 16,
     total_swap |-> 0,
     cpus |-> 2,
     physical |-> 1]

Hosts(c) ==
    CASE c \in {"path", "file"} ->
           {[DefaultHost EXCEPT !.fs = f] :
               f \in [{"/etc/hostname", "/etc"} -> {"absent", "file", "dir"}]}
      [] c = "executable" ->
           {[DefaultHost EXCEPT !.exes = x] : x \in SUBSET {"pwd", "ls"}}
      [] c \in {"env", "no_env"} ->
           {[DefaultHost EXCEPT !.env = x] : x \in SUBSET {"PWD", "HOME"}}
      [] c = "mem" ->
           {[DefaultHost EXCEPT !.total_memory = n] : n \in {1, 128}}
      [] c = "swap" ->
           {[DefaultHost EXCEPT !.total_swap = n] : n \in {0, 128}}
      [] c = "cpu_core" ->
           {[DefaultHost EXCEPT !.cpus = n] : n \in {1, 2, 64}}
      [] c = "phy_core" ->
           {[DefaultHost EXCEPT !.physical = n] : n \in {1, 2, 64}}

PathEntries ==
    {<<p>> : p \in PathNames} \cup {<<Quote, "/etc", Quote>>, <<>>}
ExeEntries == {<<n>> : n \in ExeNames} \cup {<<Quote, "pwd", Quote>>}
EnvEntries ==
    {<<n>> : n \in VarNames} \cup {<<Space, "PWD">>, <<"NOTHING", Space>>}
SizeTexts == {<<n, u>> : n \in {"1", "100"}, u \in {"GB", "TB"}} \cup {<<"lots">>}
CoreTexts == {<<"1">>, <<"2">>, <<"32">>, <<"many">>}

\* The argument texts tried for each annotation.
Attrs(c) ==
    CASE c \in {"path", "file"} -> Lists(PathEntries, {","})
      [] c = "executable" -> Lists(ExeEntries, {",", "||"})
      [] c \in {"env", "no_env"} -> Lists(EnvEntries, {","})
      [] c \in {"mem", "swap"} -> SizeTexts
      [] c \in {"cpu_core", "phy_core"} -> CoreTexts

Conds == {"path", "file", "executable", "env", "no_env", "mem", "swap",
          "cpu_core", "phy_core"}

CondStart ==
    /\ cond \in Conds
    /\ attr_str \in Attrs(cond)
    /\ host \in Hosts(cond)
    /\ cond_result = Pending
    /\ is_module \in BOOLEAN

CondIdle ==
    /\ cond = "none"
    /\ attr_str = <<>>
    /\ host = DefaultHost
    /\ cond_result = Pending
    /\ is_module = FALSE

\* The annotation named c is processed: its predicate is evaluated once.
Evaluate(c, result) ==
    /\ cond = c
    /\ cond_result = Pending
    /\ cond_result' = result
    /\ UNCHANGED <<cond, attr_str, host, is_module>>
    /\ UNCHANGED <<lockVars, runnerVars, fnVars, extVars>>

EvalPath == Evaluate("path", check_path_condition(attr_str, host))
EvalFile == Evaluate("file", check_file_condition(attr_str, host))
EvalExecutable ==
    Evaluate("executable", check_executable_condition(attr_str, host))
EvalEnv == Evaluate("env", check_env_condition(attr_str, host))
EvalNoEnv == Evaluate("no_env", check_no_env_condition(attr_str, host))
EvalMem == Evaluate("mem", check_mem_condition(attr_str, host))
EvalSwap == Evaluate("swap", check_swap_condition(attr_str, host))
EvalCpuCore == Evaluate("cpu_core", cpu_core(is_module, attr_str, host))
EvalPhyCore == Evaluate("phy_core", phy_core(is_module, attr_str, host))

CondStep ==
    \/ EvalPath
    \/ EvalFile
    \/ EvalExecutable
    \/ EvalEnv
    \/ EvalNoEnv
    \/ EvalMem
    \/ EvalSwap
    \/ EvalCpuCore
    \/ EvalPhyCore

----------------------------------------------------------------------------
(* fn_macro and its helpers: src/src/utils.rs *)

MaxAttrs == 2

NoArg == [some |-> FALSE]
Attr(path) == [path |-> path, arg |-> NoArg]
\* `#[test]` and `#[ignore = msg]` as quote! emits them.
TestAttr == Attr(<<"test">>)
IgnoreAttr(msg) == [path |-> <<"ignore">>, arg |-> Some(msg)]

last(s) == s[Len(s)]

has_test_attr_first_segment(attrs) ==
    \E k \in 1..Len(attrs) : attrs[k].path[1] = "test"

\* A marker is any attribute whose last path segment is `test`.
has_test_attr(attrs) ==
    \E k \in 1..Len(attrs) : last(attrs[k].path) = "test"

\* TRUE when the build is aborted: `#[serial]` follows the annotation.
check_before_attrs(attrs) ==
    \E k \in 1..Len(attrs) : last(attrs[k].path) = "serial"

NonWord == {" ", ":", "/", ",", "\n"}

\* Regex [^\w] replaced by "_": a token is a run of word characters or one
\* character that is not a word character.
replace_non_word(msg) ==
    [k \in 1..Len(msg) |-> IF msg[k] \in NonWord THEN "_" ELSE msg[k]]

rewrite_fn_sig_with_msg(sig, msg) ==
    [sig EXCEPT !.ident = @ \o <<"__">> \o replace_non_word(msg)]

ItemFn(attrs, vis, sig, block) ==
    [tag |-> "ItemFn", attrs |-> attrs, vis |-> vis, sig |-> sig, block |-> block]

fn_macro(feature_ign_msg, item, cc) ==
    LET all_var_exist == cc.satisfied
        ignore_msg == cc.reason
        has_test == has_test_attr(item.attrs)
        sig == IF feature_ign_msg
               THEN rewrite_fn_sig_with_msg(item.sig, ignore_msg)
               ELSE item.sig
    IN IF check_before_attrs(item.attrs) THEN Abort
       ELSE IF all_var_exist /\ has_test
       THEN ItemFn(item.attrs, item.vis, item.sig, item.block)
       ELSE IF all_var_exist
       THEN ItemFn(item.attrs \o <<TestAttr>>, item.vis, item.sig, item.block)
       ELSE IF has_test
       THEN ItemFn(item.attrs \o <<IgnoreAttr(ignore_msg)>>,
                   item.vis, sig, item.block)
       ELSE ItemFn(item.attrs \o <<TestAttr, IgnoreAttr(ignore_msg)>>,
                   item.vis, sig, item.block)

\* The attributes found below the annotation in the examples and the docs.
AttrUniverse ==
    {Attr(<<"test">>), Attr(<<"tokio", "test">>), Attr(<<"serial">>),
     Attr(<<"ignore">>), Attr(<<"should_panic">>)}

Signatures ==
    {[ident |-> <<"test_works">>, asyncness |-> a, output |-> "()"] :
        a \in BOOLEAN}

ItemFns ==
    {ItemFn(a, v, s, b) :
        a \in UNION {[1..n -> AttrUniverse] : n \in 0..MaxAttrs},
        v \in {"", "pub"},
        s \in Signatures,
        b \in {"{ assert!(true); }", "{ panic!(\"should be ignored\") }"}}

\* Pairs a predicate returns: satisfied with or without text, or unsatisfied.
ConditionResults ==
    {Returned(TRUE, <<>>),
     Returned(TRUE, <<"because", " ", "the", " ", "cpu", " ", "core", " ",
                      "less", " ", "than", " ", "1">>),
     Returned(FALSE, <<"because", " ", "variable", " ", "NOTHING", " ",
                       "not", " ", "found">>)}

FnStart ==
    /\ ign_msg \in BOOLEAN
    /\ input \in ItemFns
    /\ check_condition \in ConditionResults
    /\ fn_output = Pending

FnIdle ==
    /\ ign_msg = FALSE
    /\ input = Pending
    /\ check_condition = Pending
    /\ fn_output = Pending

\* The annotation on a function is expanded.
FnMacro ==
    /\ fn_output = Pending
    /\ fn_output' = fn_macro(ign_msg, input, check_condition)
    /\ UNCHANGED <<ign_msg, input, check_condition>>
    /\ UNCHANGED <<lockVars, runnerVars, condVars, extVars>>

FnStep == FnMacro

----------------------------------------------------------------------------
(* mod_macro and its helpers: src/src/utils.rs *)

MaxItems == 3

\* A token tree of an attribute's argument list: an identifier or
\* punctuation, or a delimited group holding a stream of them.
Ident(text) == [group |-> FALSE, stream |-> <<text>>]
Group(stream) == [group |-> TRUE, stream |-> stream]

\* An attribute whose meta is Meta::List: `#[path(tokens)]`.
MetaList(path, tokens) == [meta |-> "List", path |-> path, tokens |-> tokens]

\* `#[cfg(test)]`, as written by the user and as quote! emits it.
CfgTest == MetaList(<<"cfg">>, <<Ident("test")>>)

\* A group of the argument list holds the token `test`.
has_test_cfg(attrs) ==
    \E k \in 1..Len(attrs) :
        /\ attrs[k].meta = "List"
        /\ \E t \in 1..Len(attrs[k].tokens) :
              /\ attrs[k].tokens[t].group
              /\ \E j \in 1..Len(attrs[k].tokens[t].stream) :
                    attrs[k].tokens[t].stream[j] = "test"

rewrite_fn_ident_with_msg(ident, msg) ==
    ident \o <<"__">> \o replace_non_word(msg)

\* `mod name { items }`, or `mod name;` which has no content.
Braced(items) == [braced |-> TRUE, items |-> items]
Unbraced == [braced |-> FALSE, items |-> <<>>]

ItemMod(attrs, vis, ident, content) ==
    [tag |-> "ItemMod", attrs |-> attrs, vis |-> vis, ident |-> ident,
     content |-> content]

\* An item of the module that is not a function, such as `use super::*;`.
ItemUse ==
    [tag |-> "ItemUse", attrs |-> <<>>, vis |-> "",
     sig |-> [ident |-> <<>>, asyncness |-> FALSE, output |-> "()"],
     block |-> ""]

\* filter_map over the content: the (renamed) identifiers of the functions.
RECURSIVE fn_names(_, _, _)
fn_names(feature_ign_msg, content, ignore_msg) ==
    IF content = <<>> THEN <<>>
    ELSE (IF Head(content).tag = "ItemFn"
          THEN <<IF feature_ign_msg
                 THEN rewrite_fn_ident_with_msg(Head(content).sig.ident,
                                                ignore_msg)
                 ELSE Head(content).sig.ident>>
          ELSE <<>>)
         \o fn_names(feature_ign_msg, Tail(content), ignore_msg)

stub_keeps_running(name, ignore_msg) ==
    ItemFn(<<TestAttr>>, "",
           [ident |-> name, asyncness |-> FALSE, output |-> "()"], "{}")

\* `#[test] #[ignore = #ignore_msg] fn #fn_names () {}`
stub(name, ignore_msg) ==
    ItemFn(<<TestAttr, IgnoreAttr(ignore_msg)>>, "",
           [ident |-> name, asyncness |-> FALSE, output |-> "()"], "{}")

stubs(names, ignore_msg) ==
    [k \in 1..Len(names) |-> stub(names[k], ignore_msg)]

mod_macro(feature_ign_msg, item, cc) ==
    LET all_var_exist == cc.satisfied
        ignore_msg == cc.reason
        has_test == has_test_cfg(item.attrs)
        names == fn_names(feature_ign_msg, item.content.items, ignore_msg)
    IN IF ~item.content.braced THEN Abort
       ELSE IF all_var_exist /\ has_test
       THEN ItemMod(item.attrs \o <<CfgTest>>, item.vis, item.ident,
                    item.content)
       ELSE IF all_var_exist
       THEN ItemMod(item.attrs \o <<CfgTest>>, item.vis, item.ident,
                    item.content)
       ELSE IF has_test
       THEN ItemMod(item.attrs, item.vis, item.ident,
                    Braced(stubs(names, ignore_msg)))
       ELSE ItemMod(item.attrs \o <<CfgTest>>, item.vis, item.ident,
                    Braced(stubs(names, ignore_msg)))

\* The attributes a module carries below the annotation.
ModAttrUniverse ==
    {CfgTest,
     MetaList(<<"cfg">>, <<Ident("all"), Group(<<"test", ",", "unix">>)>>),
     MetaList(<<"allow">>, <<Ident("dead_code")>>)}

\* The items found in the annotated modules of the examples.
ModItems ==
    {ItemFn(<<TestAttr>>, "",
            [ident |-> <<"test_ignored">>, asyncness |-> FALSE, output |-> "()"],
            "{ panic!(\"should be ignored\") }"),
     ItemFn(<<TestAttr, Attr(<<"should_panic">>)>>, "pub",
            [ident |-> <<"test_works">>, asyncness |-> FALSE, output |-> "()"],
            "{ assert!(true); }"),
     ItemUse}

\* A module cannot declare two functions of one name.
DistinctFns(items) ==
    \A j, k \in 1..Len(items) :
        (j # k /\ items[j].tag = "ItemFn") => items[j] # items[k]

ModContents ==
    {Unbraced} \cup
    {Braced(items) :
        items \in {c \in UNION {[1..n -> ModItems] : n \in 0..MaxItems} :
                      DistinctFns(c)}}

ItemMods ==
    {ItemMod(a, v, <<"ignore_mod">>, c) :
        a \in UNION {[1..n -> ModAttrUniverse] : n \in 0..1},
        v \in {"", "pub"},
        c \in ModContents}

ModStart ==
    /\ ign_msg \in BOOLEAN
    /\ input \in ItemMods
    /\ check_condition \in ConditionResults
    /\ fn_output = Pending

\* The annotation on a module is expanded.
ModMacro ==
    /\ fn_output = Pending
    /\ input.tag = "ItemMod"
    /\ fn_output' = mod_macro(ign_msg, input, check_condition)
    /\ UNCHANGED <<ign_msg, input, check_condition>>
    /\ UNCHANGED <<lockVars, runnerVars, condVars, extVars>>

ModStep == ModMacro

----------------------------------------------------------------------------
(* The check function emitted by runtime_env: src/src/env.rs *)

\* What the original function hands back: nothing when it declares no
\* return type, otherwise Ok(()) or an error value.
Unit == [tag |-> "Unit"]
BodyOk == [tag |-> "BodyOk"]
BodyErr(e) == [tag |-> "BodyErr", e |-> e]

\* format!("{e:?}") of the error value.
debug(e) == <<e>>

\* The shapes of annotated function: (asyncness, output), with the values
\* a body of that shape can return.
FnShapes ==
    {[asyncness |-> a, output |-> "Default", body |-> Unit] : a \in BOOLEAN}
    \cup
    {[asyncness |-> a, output |-> "Type", body |-> b] :
        a \in BOOLEAN, b \in {BodyOk, BodyErr("()")}}

\* The variables of var_names that std::env::var does not find.
rt_missing_vars(a, env) ==
    SelectSeq(split(a, ","), LAMBDA name : ~(Len(name) = 1 /\ name[1] \in env))

\* The arms `1 =>` and `_ =>` of `match missing_vars.len()`.
unmet_result(missing) ==
    IF Len(missing) = 1
    THEN Err(RUNTIME_IGNORE_PREFIX
             \o <<"because variable ">> \o missing[1] \o <<" not found">>)
    ELSE Err(RUNTIME_IGNORE_PREFIX
             \o <<"because following variables not found:\n">>
             \o join(missing, <<", ">>) \o <<"\n">>)

\* The arm `0 =>`, after the original function has been called: one of the
\* three generated shapes, picked by (asyncness, output).
met_result(sig, value) ==
    IF sig.asyncness /\ sig.output = "Default" THEN Ok
    ELSE IF sig.asyncness /\ sig.output = "Type"
    THEN (IF value.tag = "BodyErr" THEN Err(debug(value.e)) ELSE Ok)
    ELSE Ok

RtEntries == {<<n>> : n \in VarNames}

\* Option<String>: what a predicate handed to runtime_ignore_if can return.
None == [some |-> FALSE]
IgnoreReasons ==
    {None, Some(<<"because something happened">>), Some(<<>>)}

\* _check_<ident>() of runtime_ignore_if once the predicate has returned:
\* the skip message, or Ok(()) after the statement `#ident();`.
ignore_if_result(reason) ==
    IF reason.some THEN Err(RUNTIME_IGNORE_PREFIX \o reason.text)
    ELSE Ok

\* A check function emitted by runtime_env, or one emitted by
\* runtime_ignore_if, is about to be called. runtime_ignore_if emits a
\* synchronous check function only, which module cannot register for an
\* `async fn`, so its functions are the synchronous shapes.
RtStart ==
    /\ \E shape \in FnShapes :
          /\ rt_sig = [asyncness |-> shape.asyncness, output |-> shape.output]
          /\ rt_body = shape.body
    /\ \/ /\ rt_pc = "check"
          /\ rt_attr \in Lists(RtEntries, {","})
          /\ rt_env \in SUBSET {"PWD", "HOME"}
          /\ ignore_function = None
       \/ /\ rt_pc = "ignore_check"
          /\ ~rt_sig.asyncness
          /\ rt_attr = <<>>
          /\ rt_env = {}
          /\ ignore_function \in IgnoreReasons
    /\ ignore_calls = 0
    /\ rt_body_runs = 0
    /\ rt_ret = Pending
    /\ rt_count = "none"

RtIdle ==
    /\ rt_attr = <<>>
    /\ rt_sig = Pending
    /\ rt_body = Pending
    /\ rt_env = {}
    /\ rt_pc = "none"
    /\ rt_body_runs = 0
    /\ rt_ret = Pending
    /\ rt_count = "none"
    /\ ignore_function = Pending
    /\ ignore_calls = 0

\* The check function collects the missing variables and matches on their
\* number; with some missing it returns without calling the original.
RtCheck ==
    /\ rt_pc = "check"
    /\ LET missing == rt_missing_vars(rt_attr, rt_env) IN
         IF Len(missing) = 0
         THEN /\ rt_pc' = "body"
              /\ UNCHANGED rt_ret
         ELSE /\ rt_pc' = "returned"
              /\ rt_ret' = unmet_result(missing)
    /\ UNCHANGED <<rt_attr, rt_sig, rt_body, rt_env, rt_body_runs, rt_count,
                   ignore_function, ignore_calls>>
    /\ UNCHANGED <<baseVars, exeVars, tzVars, scanVars>>

\* `#ident()` is called (and awaited) and its value turned into the result.
RtBody ==
    /\ rt_pc = "body"
    /\ rt_body_runs' = rt_body_runs + 1
    /\ rt_ret' = met_result(rt_sig, rt_body)
    /\ rt_pc' = "returned"
    /\ UNCHANGED <<rt_attr, rt_sig, rt_body, rt_env, rt_count,
                   ignore_function, ignore_calls>>
    /\ UNCHANGED <<baseVars, exeVars, tzVars, scanVars>>

\* _runtime_tests prints and counts the result of the check function.
RtReport ==
    /\ rt_pc = "returned"
    /\ rt_count' = report(rt_ret)
    /\ rt_pc' = "reported"
    /\ UNCHANGED <<rt_attr, rt_sig, rt_body, rt_env, rt_body_runs, rt_ret,
                   ignore_function, ignore_calls>>
    /\ UNCHANGED <<baseVars, exeVars, tzVars, scanVars>>

\* `if let Some(msg) = #ignore_function()`: the predicate is called; with a
\* reason the check function returns the skip message.
IgnoreIfCheck ==
    /\ rt_pc = "ignore_check"
    /\ ignore_calls' = ignore_calls + 1
    /\ IF ignore_function.some
       THEN /\ rt_pc' = "ignore_returned"
            /\ rt_ret' = ignore_if_result(ignore_function)
       ELSE /\ rt_pc' = "ignore_body"
            /\ UNCHANGED rt_ret
    /\ UNCHANGED <<rt_attr, rt_sig, rt_body, rt_env, rt_body_runs, rt_count,
                   ignore_function>>
    /\ UNCHANGED <<baseVars, exeVars, tzVars, scanVars>>

\* `#ident(); Ok(())`: the value of the call is dropped.
IgnoreIfBody ==
    /\ rt_pc = "ignore_body"
    /\ rt_body_runs' = rt_body_runs + 1
    /\ rt_ret' = ignore_if_result(ignore_function)
    /\ rt_pc' = "ignore_returned"
    /\ UNCHANGED <<rt_attr, rt_sig, rt_body, rt_env, rt_count,
                   ignore_function, ignore_calls>>
    /\ UNCHANGED <<baseVars, exeVars, tzVars, scanVars>>

\* The harness counts the result of the check function.
IgnoreIfReport ==
    /\ rt_pc = "ignore_returned"
    /\ rt_count' = report(rt_ret)
    /\ rt_pc' = "ignore_reported"
    /\ UNCHANGED <<rt_attr, rt_sig, rt_body, rt_env, rt_body_runs, rt_ret,
                   ignore_function, ignore_calls>>
    /\ UNCHANGED <<baseVars, exeVars, tzVars, scanVars>>

RtStep ==
    \/ RtCheck
    \/ RtBody
    \/ RtReport
    \/ IgnoreIfCheck
    \/ IgnoreIfBody
    \/ IgnoreIfReport

----------------------------------------------------------------------------
(* The executable annotation, probe by probe: src/src/executable.rs and
   the `executable` entry point of src/src/lib.rs *)

\* "compile": check_executable_condition of executable.rs;
\* "runtime": runtime_executable of executable.rs and the check function it
\*            emits for a synchronous function without return type;
\* "lib":     `executable` of lib.rs with the check_executable_condition
\*            defined next to it.
ExeForms == {"compile", "runtime", "lib"}

\* lib.rs never looks for "||"; executable.rs looks for it in both forms.
has_or_cond(form, a) == form # "lib" /\ contains(a, "||")
has_and_cond(a) == contains(a, ",")

\* The name handed to which::which: the compile-time forms strip quotes.
probe_name(form, exe) ==
    IF form = "runtime" THEN exe ELSE trim_matches(exe, Quote)

\* The result once every executable has been probed without early return.
exe_outcome(form, a, missing) ==
    IF has_or_cond(form, a)
    THEN (IF form = "runtime"
          THEN Err(RUNTIME_IGNORE_PREFIX
                   \o <<"because none of executables can be found:\n">>
                   \o a \o <<"\n">>)
          ELSE Returned(FALSE,
                   <<"because none of executables can be found: ">> \o a))
    ELSE IF form = "runtime"
    THEN (IF Len(missing) = 0 THEN Ok
          ELSE IF Len(missing) = 1
          THEN Err(RUNTIME_IGNORE_PREFIX
                   \o <<"because executable ">> \o missing[1]
                   \o <<" not found">>)
          ELSE Err(RUNTIME_IGNORE_PREFIX
                   \o <<"because following executables not found:\n">>
                   \o join(missing, <<", ">>) \o <<"\n">>))
    ELSE Returned(Len(missing) = 0,
             IF Len(missing) = 1
             THEN <<"because executable not found: ">> \o missing[1]
             ELSE <<"because following executables not found: \n">>
                  \o join(missing, <<"\n">>) \o <<"\n">>)

ExeStart ==
    /\ exe_form \in ExeForms
    /\ exe_attr \in Lists(ExeEntries, {",", "||"})
    /\ exe_path \in SUBSET {"pwd", "ls"}
    /\ exe_pc = "validate"
    /\ exe_list = <<>>
    /\ exe_idx = 1
    /\ exe_missing = <<>>
    /\ exe_probed = <<>>
    /\ exe_result = Pending

ExeIdle ==
    /\ exe_form = "none"
    /\ exe_attr = <<>>
    /\ exe_path = {}
    /\ exe_pc = "none"
    /\ exe_list = <<>>
    /\ exe_idx = 1
    /\ exe_missing = <<>>
    /\ exe_probed = <<>>
    /\ exe_result = Pending

validate_never_aborts(form, a) == FALSE

\* executable.rs aborts on a text holding both separators; lib.rs has no
\* such test.
validate_aborts(form, a) == has_and_cond(a) /\ has_or_cond(form, a)

\* The separators are looked for, then the text is split into names.
ExeValidate ==
    /\ exe_pc = "validate"
    /\ IF validate_aborts(exe_form, exe_attr)
       THEN /\ exe_result' = Abort
            /\ exe_pc' = "done"
            /\ UNCHANGED exe_list
       ELSE /\ exe_list' =
                  split(exe_attr,
                        IF has_or_cond(exe_form, exe_attr) THEN "||" ELSE ",")
            /\ exe_pc' = "probe"
            /\ UNCHANGED exe_result
    /\ UNCHANGED <<exe_form, exe_attr, exe_path, exe_idx,
                   exe_missing, exe_probed>>
    /\ UNCHANGED <<baseVars, checkVars, tzVars, scanVars>>

\* One iteration over the names: which::which is asked for one name. The
\* OR form returns at the first name found, the AND form collects.
ExeProbe ==
    /\ exe_pc = "probe"
    /\ exe_idx <= Len(exe_list)
    /\ LET exe == exe_list[exe_idx]
           name == probe_name(exe_form, exe)
           found == Len(name) = 1 /\ name[1] \in exe_path
       IN /\ exe_probed' = Append(exe_probed, name)
          /\ IF has_or_cond(exe_form, exe_attr)
             THEN /\ UNCHANGED exe_missing
                  /\ IF found
                     THEN /\ exe_result' =
                               (IF exe_form = "runtime" THEN Ok
                                ELSE Returned(TRUE, <<>>))
                          /\ exe_pc' = "done"
                          /\ UNCHANGED exe_idx
                     ELSE /\ exe_idx' = exe_idx + 1
                          /\ UNCHANGED <<exe_result, exe_pc>>
             ELSE /\ exe_missing' =
                       (IF found THEN exe_missing
                        ELSE Append(exe_missing, exe))
                  /\ exe_idx' = exe_idx + 1
                  /\ UNCHANGED <<exe_result, exe_pc>>
    /\ UNCHANGED <<exe_form, exe_attr, exe_path, exe_list>>
    /\ UNCHANGED <<baseVars, checkVars, tzVars, scanVars>>

\* Every executable has been probed: the result is assembled.
ExeFinish ==
    /\ exe_pc = "probe"
    /\ exe_idx > Len(exe_list)
    /\ exe_result' = exe_outcome(exe_form, exe_attr, exe_missing)
    /\ exe_pc' = "done"
    /\ UNCHANGED <<exe_form, exe_attr, exe_path, exe_list, exe_idx,
                   exe_missing, exe_probed>>
    /\ UNCHANGED <<baseVars, checkVars, tzVars, scanVars>>

ExeStep ==
    \/ ExeValidate
    \/ ExeProbe
    \/ ExeFinish

----------------------------------------------------------------------------
(* The timezone predicate: src/src/timezone.rs *)

\* The abbreviations check_timezone knows, with their offsets in minutes.
TzTable ==
    [NZDT |-> 13 * 60, NZST |-> 12 * 60, AEDT |-> 11 * 60,
     ACDT |-> 10 * 60 + 30, AEST |-> 10 * 60, ACST |-> 9 * 60 + 30,
     KST |-> 9 * 60, JST |-> 9 * 60,
     HKT |-> 8 * 60, WITA |-> 8 * 60, AWST |-> 8 * 60,
     WIB |-> 7 * 60,
     PKT |-> 5 * 60,
     EAT |-> 3 * 60, EEST |-> 3 * 60, IDT |-> 3 * 60, MSK |-> 3 * 60,
     CAT |-> 2 * 60, EET |-> 2 * 60, CEST |-> 2 * 60, SAST |-> 2 * 60,
     CET |-> 1 * 60, WAT |-> 1 * 60, WEST |-> 1 * 60, BST |-> 1 * 60,
     UTC |-> 0, GMT |-> 0, WET |-> 0,
     ADT |-> -3 * 60,
     AST |-> -4 * 60, EDT |-> -4 * 60,
     EST |-> -5 * 60, CDT |-> -5 * 60,
     MDT |-> -6 * 60,
     MST |-> -7 * 60, PDT |-> -7 * 60,
     AKDT |-> -8 * 60,
     HDT |-> -9 * 60, AKST |-> -9 * 60,
     HST |-> -10 * 60]

\* The arms written as text rather than as an abbreviation.
TzHalfHours ==
    [t \in {"5.5", "+5.5", "NDT", "-2.5", "NST", "-3.5"} |->
        CASE t \in {"5.5", "+5.5"} -> 5 * 60 + 30
          [] t \in {"NDT", "-2.5"} -> -2 * 60 - 30
          [] t \in {"NST", "-3.5"} -> -3 * 60 - 30]

\* The arms that call abort_call_site!.
TzAmbiguous == {"PST", "CST", "IST"}

\* str::parse::<i32> on the texts tried here: an optional sign and digits.
parse_i32(s) ==
    CASE s = "0" -> [ok |-> TRUE, v |-> 0]
      [] s = "-1" -> [ok |-> TRUE, v |-> -1]
      [] s = "8" -> [ok |-> TRUE, v |-> 8]
      [] s = "+8" -> [ok |-> TRUE, v |-> 8]
      [] s = "9" -> [ok |-> TRUE, v |-> 9]
      [] OTHER -> [ok |-> FALSE]

\* `match tz { ... }`: the offset of one token in minutes, or no offset.
parsed_tz(tz) ==
    IF Len(tz) # 1 THEN [ok |-> FALSE]
    ELSE IF tz[1] \in DOMAIN TzTable THEN [ok |-> TRUE, v |-> TzTable[tz[1]]]
    ELSE IF tz[1] \in DOMAIN TzHalfHours
    THEN [ok |-> TRUE, v |-> TzHalfHours[tz[1]]]
    ELSE IF parse_i32(tz[1]).ok THEN [ok |-> TRUE, v |-> parse_i32(tz[1]).v * 60]
    ELSE [ok |-> FALSE]

\* i32 division truncates toward zero.
div_trunc(a, b) == IF a >= 0 THEN a \div b ELSE -((-a) \div b)

RECURSIVE tz_loop(_, _, _, _)
\* `for tz in attr_str.split(',')`: (match_tz, incorrect_tzs), or the abort
\* raised at the first ambiguous abbreviation.
tz_loop(tzs, current_tz, match_tz, incorrect_tzs) ==
    IF Len(tzs) = 0
    THEN [tag |-> "returned", match_tz |-> match_tz,
          incorrect_tzs |-> incorrect_tzs]
    ELSE IF Len(Head(tzs)) = 1 /\ Head(tzs)[1] \in TzAmbiguous THEN Abort
    ELSE IF parsed_tz(Head(tzs)).ok
    THEN tz_loop(Tail(tzs), current_tz,
                 match_tz \/ current_tz = parsed_tz(Head(tzs)).v,
                 incorrect_tzs)
    ELSE tz_loop(Tail(tzs), current_tz, match_tz,
                 Append(incorrect_tzs, Head(tzs)))

check_timezone(a, offset) ==
    tz_loop(split(a, ","), div_trunc(offset, 60), FALSE, <<>>)

check_tz_condition_any_match(a, offset) ==
    LET r == check_timezone(a, offset) IN
    IF r.tag = Abort.tag THEN Abort
    ELSE IF r.match_tz THEN Returned(TRUE, <<>>)
    ELSE Returned(FALSE, <<>>)

check_tz_condition(a, offset) ==
    LET r == check_timezone(a, offset) IN
    IF r.tag = Abort.tag THEN Abort
    ELSE IF Len(r.incorrect_tzs) = 1
    THEN Returned(FALSE, <<"because timezone ">> \o r.incorrect_tzs[1]
                         \o <<" is incorrect">>)
    ELSE IF Len(r.incorrect_tzs) > 1
    THEN Returned(FALSE, <<"because following timezones are incorrect:\n">>
                         \o join(r.incorrect_tzs, <<", ">>) \o <<"\n">>)
    ELSE IF r.match_tz THEN Returned(TRUE, <<>>)
    ELSE Returned(FALSE,
             <<"because the test case not run in following timezone:\n">>
             \o a \o <<"\n">>)

RECURSIVE runtime_tz_loop(_, _, _, _)
\* The loop of the emitted check function: `tz.parse::<i32>()` is the only
\* reading of a token, and its value is compared with current_tz as it is.
runtime_tz_loop(tzs, current_tz, match_tz, incorrect_tzs) ==
    IF Len(tzs) = 0
    THEN [match_tz |-> match_tz, incorrect_tzs |-> incorrect_tzs]
    ELSE IF Len(Head(tzs)) = 1 /\ parse_i32(Head(tzs)[1]).ok
    THEN runtime_tz_loop(Tail(tzs), current_tz,
                         match_tz \/ current_tz = parse_i32(Head(tzs)[1]).v,
                         incorrect_tzs)
    ELSE runtime_tz_loop(Tail(tzs), current_tz, match_tz,
                         Append(incorrect_tzs, Head(tzs)))

\* _check_<ident>() of runtime_timezone: Ok(()) after the body has run, or
\* the skip message.
runtime_timezone(a, offset) ==
    LET r == runtime_tz_loop(split(a, ","), div_trunc(offset, 60), FALSE, <<>>)
    IN
    IF r.match_tz /\ Len(r.incorrect_tzs) = 0 THEN Ok
    ELSE IF Len(r.incorrect_tzs) = 1
    THEN Err(RUNTIME_IGNORE_PREFIX \o <<"because timezone ">>
             \o r.incorrect_tzs[1] \o <<" is incorrect">>)
    ELSE IF Len(r.incorrect_tzs) > 1
    THEN Err(RUNTIME_IGNORE_PREFIX
             \o <<"because following timezones are incorrect:\n">>
             \o debug(r.incorrect_tzs) \o <<"\n">>)
    ELSE Err(RUNTIME_IGNORE_PREFIX
             \o <<"because the test case not run in following timezone:\n">>
             \o a \o <<"\n">>)

\* The tokens tried: abbreviations, signed hours, half hours, the ambiguous
\* abbreviations, a name that is no offset, and the empty text.
TzEntries ==
    {<<t>> : t \in {"UTC", "JST", "PST", "CST", "IST",
                    "5.5", "-1", "+8", "0", "Asia/Taipei"}}
    \cup {<<>>}

\* FixedOffset::local_minus_utc of the host, in seconds.
TzOffsets == {0, 9 * 3600, 8 * 3600, -3600, 19800}

TzStart ==
    /\ tz_attr \in Lists(TzEntries, {","})
    /\ local_minus_utc \in TzOffsets
    /\ tz_pc = "eval"
    /\ tz_result = Pending
    /\ rt_tz_result = Pending

TzIdle ==
    /\ tz_attr = <<>>
    /\ local_minus_utc = 0
    /\ tz_pc = "none"
    /\ tz_result = Pending
    /\ rt_tz_result = Pending

\* The timezone annotation is processed: the predicate is evaluated once.
EvalTimezone ==
    /\ tz_pc = "eval"
    /\ tz_result' = check_tz_condition(tz_attr, local_minus_utc)
    /\ tz_pc' = "done"
    /\ UNCHANGED <<tz_attr, local_minus_utc, rt_tz_result>>
    /\ UNCHANGED <<baseVars, checkVars, exeVars, scanVars>>

\* The check function emitted by runtime_timezone for the same argument is
\* called on the same host.
RuntimeTimezone ==
    /\ tz_pc \in {"eval", "done"}
    /\ rt_tz_result = Pending
    /\ rt_tz_result' = runtime_timezone(tz_attr, local_minus_utc)
    /\ UNCHANGED <<tz_attr, local_minus_utc, tz_pc, tz_result>>
    /\ UNCHANGED <<baseVars, checkVars, exeVars, scanVars>>

TzStep == EvalTimezone \/ RuntimeTimezone

----------------------------------------------------------------------------
(* The function scan of `module`: src/src/runtime.rs, src/src/utils.rs *)

\* str::starts_with("runtime_") on the identifiers tried here.
starts_with_runtime(ident) == ident \in {"runtime_env", "runtime_no_env"}

\* (has_test, has_test_with, has_rt_test_with) over the attribute paths.
test_with_attrs(attrs) ==
    <<\E k \in 1..Len(attrs) : last(attrs[k].path) = "test",
      \E k \in 1..Len(attrs) : attrs[k].path[1] = "test_with",
      \E k \in 1..Len(attrs) : starts_with_runtime(last(attrs[k].path))>>

\* What the closure of filter_map makes of the function at position k.
scan_fn(k, f) ==
    LET t == test_with_attrs(f.attrs) IN
    IF t[1] /\ t[2] THEN Abort
    ELSE IF t[2] /\ ~t[3] THEN Abort
    ELSE IF ~t[1] /\ t[2] /\ t[3]
    THEN [tag |-> "Some", ident |-> k, is_async |-> f.asyncness]
    ELSE [tag |-> "None"]

RECURSIVE scan_from(_, _)
\* content.iter().filter_map(..).collect(): test_metas, or the first abort.
scan_from(content, k) ==
    IF k > Len(content) THEN [tag |-> "collected", test_metas |-> <<>>]
    ELSE LET r == scan_fn(k, content[k])
             rest == scan_from(content, k + 1)
         IN IF r.tag = Abort.tag \/ rest.tag = Abort.tag THEN Abort
            ELSE IF r.tag = "Some"
            THEN [tag |-> "collected",
                  test_metas |-> <<(<<r.ident, r.is_async>>)>> \o rest.test_metas]
            ELSE rest

MaxScanFns == 3

ScanAttrPaths ==
    {<<"test">>, <<"test_with", "env">>, <<"test_with", "runtime_env">>,
     <<"runtime_env">>}

ScannedFn(attrs, asyncness) == [attrs |-> attrs, asyncness |-> asyncness]

\* The function under scan: up to max_attrs attributes, in any order.
ScanFns(max_attrs) ==
    {ScannedFn(a, s) :
        a \in UNION {[1..n -> {Attr(p) : p \in ScanAttrPaths}] : n \in 0..max_attrs},
        s \in BOOLEAN}

\* Its neighbours: a runtime test as the examples write them, and a helper.
PlainFns ==
    {ScannedFn(<<Attr(<<"test_with", "runtime_env">>)>>, FALSE),
     ScannedFn(<<>>, FALSE)}

\* The modules scanned: one such function among up to max_fns - 1
\* neighbours.
ScanContents(max_fns, max_attrs) ==
    UNION {{pre \o <<f>> \o post :
               f \in ScanFns(max_attrs),
               pre \in [1..c[1] -> PlainFns],
               post \in [1..(c[2] - c[1]) -> PlainFns]} :
           c \in {d \in (0..(max_fns - 1)) \X (0..(max_fns - 1)) : d[1] <= d[2]}}

ScanStart ==
    /\ scan_content \in ScanContents(MaxScanFns, MaxAttrs)
    /\ scan_pc = "scan"
    /\ scan_result = Pending

ScanIdle ==
    /\ scan_content = <<>>
    /\ scan_pc = "none"
    /\ scan_result = Pending

\* `module` walks the items of the module once.
ScanModule ==
    /\ scan_pc = "scan"
    /\ scan_result' = scan_from(scan_content, 1)
    /\ scan_pc' = "done"
    /\ UNCHANGED scan_content
    /\ UNCHANGED <<baseVars, checkVars, exeVars, tzVars>>

ScanStep == ScanModule

ExtIdle == RtIdle /\ ExeIdle /\ TzIdle /\ ScanIdle

----------------------------------------------------------------------------
(* Specifications *)

BaseIdle == LockIdle /\ RunnerIdle /\ CondIdle /\ FnIdle

LockInit == LockStart /\ RunnerIdle /\ CondIdle /\ FnIdle /\ ExtIdle
SpecLock == LockInit /\ [][LockStep]_vars

RunnerInit == RunnerStart /\ LockIdle /\ CondIdle /\ FnIdle /\ ExtIdle
SpecRunner == RunnerInit /\ [][RunnerStep]_vars

CondInit == CondStart /\ LockIdle /\ RunnerIdle /\ FnIdle /\ ExtIdle
SpecCond == CondInit /\ [][CondStep]_vars

FnInit == FnStart /\ LockIdle /\ RunnerIdle /\ CondIdle /\ ExtIdle
SpecFn == FnInit /\ [][FnStep]_vars

ModInit == ModStart /\ LockIdle /\ RunnerIdle /\ CondIdle /\ ExtIdle
SpecMod == ModInit /\ [][ModStep]_vars

CheckInit == RtStart /\ BaseIdle /\ ExeIdle /\ TzIdle /\ ScanIdle
SpecCheck == CheckInit /\ [][RtStep]_vars

ExeInit == ExeStart /\ BaseIdle /\ RtIdle /\ TzIdle /\ ScanIdle
SpecExe == ExeInit /\ [][ExeStep]_vars

TzInit == TzStart /\ BaseIdle /\ RtIdle /\ ExeIdle /\ ScanIdle
SpecTz == TzInit /\ [][TzStep]_vars

ScanInit == ScanStart /\ BaseIdle /\ RtIdle /\ ExeIdle /\ TzIdle
SpecScan == ScanInit /\ [][ScanStep]_vars

----------------------------------------------------------------------------
(* Properties of the file lock *)

SameLock(c, d) == c # d /\ lock_file(c) = lock_file(d)

\* c created the marker file and has not removed it.
Holds(c) == test_with_lock[c] /\ pc[c] # "passed"

\* C1: two tests guarded by the same lock name never run their guarded
\* bodies at the same time, and at most one of them holds the marker file,
\* which exists for as long as it is held.
LockMutualExclusion ==
    \A c, d \in Claimants :
        /\ SameLock(c, d) =>
              /\ ~(pc[c] = "body" /\ pc[d] = "body")
              /\ ~(Holds(c) /\ Holds(d))
        /\ Holds(c) => lock_file(c) \in tmp_dir

\* One claimant is in its body while another has tried the same name and
\* been turned away.
LockContended ==
    \E c, d \in Claimants :
        /\ SameLock(c, d)
        /\ pc[c] = "body"
        /\ pc[d] = "loop"
        /\ slept[d] > 0

AcquireBounded ==
    \A c \in Claimants :
        LET limit == IF Len(lock_attrs[c]) = 1 THEN 60 ELSE lock_attrs[c][2]
            out_of_attempts == pc[c] # "loop" /\ ~test_with_lock[c]
        IN /\ attempts[c] <= limit
           /\ slept[c] = attempts[c] - (IF test_with_lock[c] THEN 1 ELSE 0)
           /\ out_of_attempts => (attempts[c] = limit /\ body_runs[c] = 0)
           /\ (out_of_attempts /\ pc[c] # "check") =>
                 (pc[c] = "panicked" /\ panic_msg[c] = AcquireMsg)
           /\ body_runs[c] > 0 => test_with_lock[c]

\* A test with the default waiting time gives up after its 60th attempt.
AcquireExhausted ==
    \E c \in Claimants :
        /\ Len(lock_attrs[c]) = 1
        /\ attempts[c] = 60
        /\ panic_msg[c] = AcquireMsg

----------------------------------------------------------------------------
(* Properties of the generated runner programs *)

Done(t) == status[t] \in {"passed", "failed", "ignored"}
Started(t) == status[t] # "idle"
Alive(m) == env_new[m] > env_drop[m]
FixtureModules == {m \in 1..Len(mod_names) : mod_names[m].test_env_type}
PooledModules == {m \in 1..Len(mod_names) : ~mod_names[m].test_env_type}

OneFixtureOnePooled ==
    /\ runner_kind = "runner"
    /\ Len(mod_names) = 2
    /\ Cardinality(FixtureModules) = 1

\* C4: with one fixture module and one module without fixture, in either
\* order, a test of the module without fixture starts only after every test
\* of the fixture module has finished and the fixture has been released.
FixtureBatchBeforePooled ==
    OneFixtureOnePooled =>
        \A f \in FixtureModules, n \in PooledModules :
            (\E t \in TestsOf(mod_names, n) : Started(t)) =>
                /\ \A t \in TestsOf(mod_names, f) : Done(t)
                /\ env_new[f] = 1
                /\ env_drop[f] = 1

\* The module without fixture is listed first and one of its tests runs,
\* after the tests of the fixture module listed second.
PooledRunsAfterLaterFixture ==
    /\ OneFixtureOnePooled
    /\ 2 \in FixtureModules
    /\ TestsOf(mod_names, 2) # {}
    /\ \E t \in TestsOf(mod_names, 1) : status[t] = "running"

\* C5: every fixture that was constructed is released exactly once, after
\* the last test of its module's batch, by the time the program exits.
FixtureReleasedExactlyOnce ==
    \A m \in 1..Len(mod_names) :
        /\ env_drop[m] <= env_new[m]
        /\ env_new[m] <= 1
        /\ env_drop[m] = 1 => \A t \in TestsOf(mod_names, m) : Done(t)
        /\ (exit_status # Running /\ env_new[m] = 1) => env_drop[m] = 1

\* C6: in the program emitted by runner at most one fixture is alive, and a
\* later module's fixture is constructed, or one of its tests started, only
\* after the earlier fixture module's tests finished and its fixture was
\* released.
OneFixtureAtATime ==
    runner_kind = "runner" =>
        /\ Cardinality({m \in FixtureModules : Alive(m)}) <= 1
        /\ \A f \in FixtureModules, m \in 1..Len(mod_names) :
              (f < m /\ (env_new[m] > 0
                         \/ \E t \in TestsOf(mod_names, m) : Started(t))) =>
                  /\ \A t \in TestsOf(mod_names, f) : Done(t)
                  /\ ~Alive(f)
                  /\ env_drop[f] = 1

\* The second of two fixture modules runs a test while its fixture is alive.
SecondFixtureRunning ==
    /\ runner_kind = "runner"
    /\ FixtureModules = {1, 2}
    /\ TestsOf(mod_names, 1) # {}
    /\ Alive(2)
    /\ \E t \in TestsOf(mod_names, 2) : status[t] = "running"

\* C7: once the batch of a fixture module has ended with a failed test the
\* program has exited with a failing status; no fixture of a later module
\* is constructed and no test of a later module or of the pooled batch is
\* started.
FailedBatchStopsProgram ==
    runner_kind = "runner" =>
        \A f \in FixtureModules :
            (\E t \in TestsOf(mod_names, f) : status[t] = "failed") =>
                /\ \A m \in 1..Len(mod_names) :
                      (m > f \/ m \in PooledModules) =>
                          /\ env_new[m] = 0
                          /\ \A t \in TestsOf(mod_names, m) : ~Started(t)
                /\ main_pc # "run" => (main_pc = "exited" /\ exit_status = 101)

\* The first module's batch failed and the program exited, leaving the tests
\* of the second module unstarted.
ExitedOnFailedBatch ==
    /\ runner_kind = "runner"
    /\ Len(mod_names) = 2
    /\ 1 \in FixtureModules
    /\ \E t \in TestsOf(mod_names, 1) : status[t] = "failed"
    /\ TestsOf(mod_names, 2) # {}
    /\ exit_status = 101

\* The tests whose check function returned an error without the skip prefix.
GenuineFailures ==
    {t \in AllTests(mod_names) :
        /\ returned[t].tag = "Err"
        /\ ~starts_with(returned[t].message.text, RUNTIME_IGNORE_PREFIX)}

----------------------------------------------------------------------------
(* Properties of the condition predicates *)

EmptyWhenSatisfied ==
    \/ cond \in {"env", "no_env"}
    \/ cond = "executable" /\ contains(attr_str, "||")

----------------------------------------------------------------------------
(* Properties of fn_macro *)

Unsatisfied == ~check_condition.satisfied

\* The function already carries `#[test]` or a marker such as
\* `#[tokio::test]`, whose path ends in `test`.
Marked ==
    \E k \in 1..Len(input.attrs) :
        input.attrs[k].path[Len(input.attrs[k].path)] = "test"

\* The attributes of the four outcomes: the original ones, then the test
\* marker when none was there, then the skip marker when unsatisfied.
ExpectedAttrs ==
    input.attrs
    \o (IF Marked THEN <<>> ELSE <<TestAttr>>)
    \o (IF Unsatisfied THEN <<IgnoreAttr(check_condition.reason)>> ELSE <<>>)

\* The skip marker carrying the reason is among the attributes of the output.
SkipMarkerPresent ==
    \E k \in 1..Len(fn_output.attrs) :
        fn_output.attrs[k] = IgnoreAttr(check_condition.reason)

\* C10 as stated: the rewrite adds the test marker when it is missing and
\* the skip marker exactly when the condition is unsatisfied, and keeps the
\* attributes, visibility, signature and body of the function.
FnRewritePreservesItem ==
    fn_output.tag = "ItemFn" =>
        /\ fn_output.attrs = ExpectedAttrs
        /\ fn_output.vis = input.vis
        /\ fn_output.sig = input.sig
        /\ fn_output.block = input.block
        /\ SkipMarkerPresent <=> Unsatisfied

\* C10: whenever the rewrite returns, it adds the test marker when it is
\* missing and the skip marker exactly when the condition is unsatisfied,
\* and keeps the attributes, visibility and body; the signature is kept
\* too, except that a build with ign-msg appends "__" and the sanitized
\* reason to the name in the two unsatisfied outcomes.
FnRewriteOutcomes ==
    fn_output.tag = "ItemFn" =>
        /\ fn_output.attrs = ExpectedAttrs
        /\ fn_output.vis = input.vis
        /\ fn_output.sig =
              IF ign_msg /\ Unsatisfied
              THEN [input.sig EXCEPT !.ident =
                       @ \o <<"__">> \o replace_non_word(check_condition.reason)]
              ELSE input.sig
        /\ fn_output.block = input.block
        /\ SkipMarkerPresent <=> Unsatisfied

\* An ign-msg build skipped a function marked `#[tokio::test]` and renamed
\* it.
FnSkippedAndRenamed ==
    /\ fn_output.tag = "ItemFn"
    /\ ign_msg
    /\ Unsatisfied
    /\ input.attrs = <<Attr(<<"tokio", "test">>)>>
    /\ fn_output.attrs = <<Attr(<<"tokio", "test">>),
                           IgnoreAttr(check_condition.reason)>>
    /\ fn_output.sig # input.sig

----------------------------------------------------------------------------
(* Properties of the module rewrite *)

\* The function declarations among the direct items of the annotated module.
OriginalFns ==
    SelectSeq(input.content.items, LAMBDA it : it.tag = "ItemFn")

\* The annotation sat on a module with a body and its condition was
\* unsatisfied; the rewrite has returned.
ModSkipped ==
    /\ input.tag = "ItemMod"
    /\ input.content.braced
    /\ fn_output.tag = "ItemMod"
    /\ ~check_condition.satisfied

\* Item k of the output is an empty function carrying the test marker and
\* the skip marker with the reason of the module.
IsStub(k) ==
    LET out == fn_output.content.items[k] IN
    /\ out.tag = "ItemFn"
    /\ out.block = "{}"
    /\ \E a \in 1..Len(out.attrs) : out.attrs[a] = TestAttr
    /\ \E a \in 1..Len(out.attrs) :
          out.attrs[a] = IgnoreAttr(check_condition.reason)

\* No item of the output has the body of a function of the input.
NoBodySurvives ==
    \A k \in 1..Len(fn_output.content.items), j \in 1..Len(OriginalFns) :
        fn_output.content.items[k].block # OriginalFns[j].block

\* C11 as stated: an unsatisfied condition on a module with N functions
\* yields exactly N functions, one per original function name, each an
\* empty stub with the test marker and the skip marker; no body survives.
ModStubsKeepNames ==
    ModSkipped =>
        /\ Len(fn_output.content.items) = Len(OriginalFns)
        /\ \A k \in 1..Len(OriginalFns) :
              /\ IsStub(k)
              /\ fn_output.content.items[k].sig.ident = OriginalFns[k].sig.ident
        /\ NoBodySurvives

\* C11: an unsatisfied condition on a module with N functions yields
\* exactly N functions, one per original function and in their order, each
\* an empty stub with the test marker and the skip marker; no body
\* survives. A stub has the name of its function, and in a build with
\* ign-msg that name followed by "__" and the sanitized reason.
ModStubsPerFunction ==
    ModSkipped =>
        /\ Len(fn_output.content.items) = Len(OriginalFns)
        /\ \A k \in 1..Len(OriginalFns) :
              /\ IsStub(k)
              /\ fn_output.content.items[k].sig.ident =
                    IF ign_msg
                    THEN OriginalFns[k].sig.ident \o <<"__">>
                         \o replace_non_word(check_condition.reason)
                    ELSE OriginalFns[k].sig.ident
        /\ NoBodySurvives

\* An ign-msg build skipped a module holding two functions and a `use`.
ModSkippedTwoFns ==
    /\ ModSkipped
    /\ ign_msg
    /\ Len(input.content.items) = 3
    /\ Len(OriginalFns) = 2
    /\ Len(fn_output.content.items) = 2
    /\ fn_output.content.items[1].sig.ident # OriginalFns[1].sig.ident

----------------------------------------------------------------------------
(* Properties of the runtime check function *)

\* The check function has returned.
RtReturned == rt_pc \in {"returned", "reported"}

\* A variable named in the annotation is not set.
RtUnmet == \E k \in 1..Len(rt_attr) : rt_attr[k] # "," /\ rt_attr[k] \notin rt_env

\* C12 as stated: for every shape of annotated function the check function
\* runs the body when the condition is met, returns a failure whenever the
\* body returned an error value, and returns success only if it did not.
CheckPropagatesBodyError ==
    RtReturned =>
        /\ ~RtUnmet => rt_body_runs = 1
        /\ (rt_body_runs = 1 /\ rt_body.tag = "BodyErr") => rt_ret.tag = "Err"
        /\ rt_ret = Ok => rt_body.tag # "BodyErr"

\* C13: with a variable missing the body is not run and the check function
\* returns a failure whose message is the runtime-ignore prefix followed by
\* the reason the compile-time predicate gives; the reporter counts a
\* result as ignored exactly when it is an error whose message starts with
\* the prefix, and as failed exactly when it is any other error.
UnmetIsSkipped ==
    /\ (RtReturned /\ RtUnmet) =>
          /\ rt_body_runs = 0
          /\ rt_ret.tag = "Err"
          /\ rt_ret.message.text =
                RUNTIME_IGNORE_PREFIX
                \o check_env_condition(rt_attr,
                       [DefaultHost EXCEPT !.env = rt_env]).reason
    /\ rt_pc = "reported" =>
          LET prefixed ==
                  /\ rt_ret.tag = "Err"
                  /\ Len(rt_ret.message.text) >= 1
                  /\ <<rt_ret.message.text[1]>> = RUNTIME_IGNORE_PREFIX
          IN /\ rt_count = "ignored" <=> prefixed
             /\ rt_count = "failed" <=> (rt_ret.tag = "Err" /\ ~prefixed)

\* A check function with two variables missing was reported as ignored
\* without its body having run.
UnmetReportedIgnored ==
    /\ rt_pc = "reported"
    /\ Cardinality({k \in 1..Len(rt_attr) :
           rt_attr[k] # "," /\ rt_attr[k] \notin rt_env}) = 2
    /\ rt_body_runs = 0
    /\ rt_count = "ignored"

----------------------------------------------------------------------------
(* Properties of the environment and filesystem predicates *)

\* The variables named in the argument, in order: what is left of the text
\* once the commas and the blanks around the entries are taken away.
NamedVars == SelectSeq(attr_str, LAMBDA tok : tok \notin {",", Space})

IsSet(name) == name \in host.env

MissingVars == SelectSeq(NamedVars, LAMBDA name : ~IsSet(name))
FoundVars == SelectSeq(NamedVars, LAMBDA name : IsSet(name))

\* "a, b, c"
CommaJoined(names) ==
    [k \in 1..(2 * Len(names) - 1) |->
        IF k % 2 = 1 THEN names[(k + 1) \div 2] ELSE ", "]

\* C14: the presence predicate is satisfied iff every named variable is
\* set; its reason is empty when satisfied and otherwise names all the
\* missing variables and no other, "because variable X not found" for one
\* and the comma-joined list in the plural wording for more.
EnvPresence ==
    (cond = "env" /\ cond_result.tag = "returned") =>
        /\ cond_result.satisfied <=> \A k \in 1..Len(NamedVars) : IsSet(NamedVars[k])
        /\ cond_result.satisfied => cond_result.reason = <<>>
        /\ ~cond_result.satisfied =>
              cond_result.reason =
                 IF Len(MissingVars) = 1
                 THEN <<"because variable ", MissingVars[1], " not found">>
                 ELSE <<"because following variables not found:\n">>
                      \o CommaJoined(MissingVars) \o <<"\n">>

\* Of three entries, one of them written with a blank, the first is set and
\* the two after it are missing and named in the reason.
EnvTwoMissingOneSet ==
    /\ cond = "env"
    /\ cond_result.tag = "returned"
    /\ Len(NamedVars) = 3
    /\ Len(attr_str) > 5
    /\ IsSet(NamedVars[1])
    /\ Len(MissingVars) = 2
    /\ ~cond_result.satisfied

\* C15: the absence predicate is satisfied iff every named variable is
\* unset; a list with set and unset variables is unsatisfied, and the
\* reason names all the set variables and no other.
EnvAbsence ==
    (cond = "no_env" /\ cond_result.tag = "returned") =>
        /\ cond_result.satisfied <=> \A k \in 1..Len(NamedVars) : ~IsSet(NamedVars[k])
        /\ (Len(FoundVars) > 0 /\ Len(MissingVars) > 0) => ~cond_result.satisfied
        /\ ~cond_result.satisfied =>
              cond_result.reason =
                 IF Len(FoundVars) = 1
                 THEN <<"because variable ", FoundVars[1], " was found">>
                 ELSE <<"because following variables were found:\n">>
                      \o CommaJoined(FoundVars) \o <<"\n">>

\* A list with one variable set and one unset was evaluated for absence.
NoEnvMixedList ==
    /\ cond = "no_env"
    /\ cond_result.tag = "returned"
    /\ Len(FoundVars) = 1
    /\ Len(MissingVars) = 1
    /\ ~cond_result.satisfied

\* The entries of a path list as written, and what each is on the host.
WrittenEntries == split(attr_str, ",")

KindOf(entry) ==
    LET name == SelectSeq(entry, LAMBDA tok : tok # Quote) IN
    IF Len(name) = 1 /\ name[1] \in DOMAIN host.fs
    THEN host.fs[name[1]]
    ELSE "absent"

\* file wants a regular file, path wants anything that exists.
IsMissing(entry) ==
    IF cond = "file" THEN KindOf(entry) # "file" ELSE KindOf(entry) = "absent"

MissingEntries == SelectSeq(WrittenEntries, IsMissing)

\* C16: an entry is present for file only if it is a regular file and for
\* path iff it exists, so a directory is missing for file and present for
\* path and an absent entry is missing for both; the predicate is satisfied
\* iff no entry is missing, and the reason lists every missing entry.
FilePathPresence ==
    (cond \in {"file", "path"} /\ cond_result.tag = "returned") =>
        /\ cond_result.satisfied <=> Len(MissingEntries) = 0
        /\ cond_result.reason =
              LET what == IF cond = "file" THEN "file" ELSE "path" IN
              IF Len(MissingEntries) = 1
              THEN <<"because " \o what \o " not found: ">> \o MissingEntries[1]
              ELSE <<"because following " \o what \o "s not found: \n">>
                   \o join(MissingEntries, <<"\n">>) \o <<"\n">>

\* The file predicate met a directory and an absent entry and listed both.
FileSawDirectory ==
    /\ cond = "file"
    /\ cond_result.tag = "returned"
    /\ \E k \in 1..Len(WrittenEntries) : KindOf(WrittenEntries[k]) = "dir"
    /\ \E k \in 1..Len(WrittenEntries) : KindOf(WrittenEntries[k]) = "file"
    /\ Len(MissingEntries) = 2

----------------------------------------------------------------------------
(* Properties of the executable annotation *)

HasComma == \E k \in 1..Len(exe_attr) : exe_attr[k] = ","
HasOr == \E k \in 1..Len(exe_attr) : exe_attr[k] = "||"

ListedExecutables ==
    SelectSeq(exe_attr, LAMBDA tok : tok \notin {",", "||", Quote})

Resolves(name) == name \in exe_path

\* The text occurs in the reason.
Embeds(reason, text) ==
    \E k \in 0..(Len(reason) - Len(text)) :
        SubSeq(reason, k + 1, k + Len(text)) = text

\* C18 as stated, for the `executable` annotation (the predicate of
\* executable.rs and the one `executable` of lib.rs calls): with `||` it is
\* satisfied iff at least one listed executable resolves, and the reason
\* embeds the whole text when none does; with `,` or a single name it is
\* satisfied iff every listed executable resolves, and the reason lists
\* every unresolved one.
ExecutableOrAnd ==
    (/\ exe_form \in {"compile", "lib"}
     /\ exe_pc = "done"
     /\ exe_result.tag = "returned"
     /\ ~(HasComma /\ HasOr)) =>
        IF HasOr
        THEN /\ exe_result.satisfied <=>
                   \E k \in 1..Len(ListedExecutables) :
                       Resolves(ListedExecutables[k])
             /\ ~exe_result.satisfied => Embeds(exe_result.reason, exe_attr)
        ELSE /\ exe_result.satisfied <=>
                   \A k \in 1..Len(ListedExecutables) :
                       Resolves(ListedExecutables[k])
             /\ \A k \in 1..Len(ListedExecutables) :
                   ~Resolves(ListedExecutables[k]) =>
                       Embeds(exe_result.reason, <<ListedExecutables[k]>>)

----------------------------------------------------------------------------
(* Properties of the timezone predicate *)

TzTokens == split(tz_attr, ",")

\* The host's offset from UTC in minutes.
CurrentMinutes == CHOOSE m \in -1440..1440 : 60 * m = local_minus_utc

TokenMatches(tz) == parsed_tz(tz).ok /\ parsed_tz(tz).v = CurrentMinutes

\* C19: the predicate is satisfied iff a token's offset in minutes equals
\* the host's offset in minutes and every token has an offset; a token
\* without one makes it unsatisfied even next to a matching token; a list
\* holding PST, CST or IST aborts the build and returns nothing.
TimezoneMatch ==
    tz_pc = "done" =>
        IF \E k \in 1..Len(TzTokens) :
               TzTokens[k] \in {<<"PST">>, <<"CST">>, <<"IST">>}
        THEN tz_result.tag = Abort.tag
        ELSE /\ tz_result.tag = "returned"
             /\ tz_result.satisfied <=>
                   /\ \E k \in 1..Len(TzTokens) : TokenMatches(TzTokens[k])
                   /\ \A k \in 1..Len(TzTokens) : parsed_tz(TzTokens[k]).ok

\* On a host at UTC+9 the list held JST and a name that is no offset, and
\* the predicate was unsatisfied.
TzMatchNextToUnparsable ==
    /\ tz_pc = "done"
    /\ local_minus_utc = 9 * 3600
    /\ \E k \in 1..Len(TzTokens) : TzTokens[k] = <<"JST">>
    /\ \E k \in 1..Len(TzTokens) : TzTokens[k] = <<"Asia/Taipei">>
    /\ tz_result.tag = "returned"
    /\ ~tz_result.satisfied

----------------------------------------------------------------------------
(* Properties of the module scan *)

HasPath(f, path) == \E a \in 1..Len(f.attrs) : f.attrs[a].path = path

\* The function carries `#[test]`.
CarriesTestMarker(f) == HasPath(f, <<"test">>)

\* The function carries a condition annotation of the crate, `test_with::env`
\* being the compile-time form and `test_with::runtime_*` the runtime form.
CarriesCompileTimeForm(f) == HasPath(f, <<"test_with", "env">>)
CarriesRuntimeForm(f) ==
    \/ HasPath(f, <<"test_with", "runtime_env">>)
    \/ HasPath(f, <<"test_with", "runtime_no_env">>)

Registered(k) ==
    /\ scan_result.tag = "collected"
    /\ \E j \in 1..Len(scan_result.test_metas) : scan_result.test_metas[j][1] = k

\* C20 as stated: the scan aborts the build for any function carrying the
\* test marker and for any function carrying a compile-time condition
\* annotation instead of the runtime form; only functions with a
\* runtime-form annotation and no test marker are registered.
ScanRejectsMisuse ==
    scan_pc = "done" =>
        \A k \in 1..Len(scan_content) :
            LET f == scan_content[k] IN
            /\ CarriesTestMarker(f) => scan_result.tag = Abort.tag
            /\ (CarriesCompileTimeForm(f) /\ ~CarriesRuntimeForm(f)) =>
                  scan_result.tag = Abort.tag
            /\ Registered(k) => (CarriesRuntimeForm(f) /\ ~CarriesTestMarker(f))

----------------------------------------------------------------------------
(* A guarded body that dies while it holds the lock *)

\* The statements of claimant c panicked after it had created the marker.
Crashed(c) == pc[c] = "panicked" /\ panic_msg[c] = BodyPanic

\* C22: once a guarded body has terminated abnormally while holding the
\* lock, every later step leaves the marker file in place, and a later
\* claimant of the same name never acquires the lock and never runs its
\* body: when it leaves its loop it has made all of its attempts, and then it
\* fails with the acquisition message.
CrashedHolderStarvesOthers ==
    [][\A c, d \in Claimants :
         (Crashed(c) /\ SameLock(c, d) /\ ~test_with_lock[d]) =>
            /\ lock_file(c) \in tmp_dir
            /\ lock_file(c) \in tmp_dir'
            /\ ~test_with_lock'[d]
            /\ body_runs'[d] = 0
            /\ (pc[d] = "loop" /\ pc'[d] # "loop") =>
                  /\ pc'[d] = "check"
                  /\ attempts'[d] = wait_time(d)
            /\ (pc[d] = "check" /\ pc'[d] # "check") =>
                  /\ pc'[d] = "panicked"
                  /\ panic_msg'[d] = AcquireMsg
    ]_vars

\* A body panicked with the marker in place and a later claimant of the same
\* name has failed after at least one refused attempt.
StarvedAfterCrash ==
    \E c, d \in Claimants :
        /\ Crashed(c)
        /\ SameLock(c, d)
        /\ lock_file(c) \in tmp_dir
        /\ pc[d] = "panicked"
        /\ panic_msg[d] = AcquireMsg
        /\ attempts[d] >= 1
        /\ body_runs[d] = 0

\* C29: a step that removes a marker file is taken by a claimant that
\* created it; a step of a claimant that has not created the marker leaves
\* a present marker in place; and the marker of a claimant that holds the
\* lock is still there after every step of another claimant.
OnlyCreatorDeletes ==
    [][\A c \in Claimants :
         /\ (lock_file(c) \in tmp_dir /\ lock_file(c) \notin tmp_dir') =>
               \E d \in Claimants :
                   /\ lock_file(d) = lock_file(c)
                   /\ test_with_lock[d]
                   /\ pc[d] # pc'[d]
         /\ (~test_with_lock[c] /\ pc[c] # pc'[c]
               /\ lock_file(c) \in tmp_dir) =>
               lock_file(c) \in tmp_dir'
         /\ (Holds(c) /\ pc'[c] = pc[c]) =>
               lock_file(c) \in tmp_dir'
    ]_vars

\* A claimant has failed every attempt while the holder of the same lock is
\* still inside its body, and the holder's marker is in place.
FailedClaimantLeftMarker ==
    \E c, d \in Claimants :
        /\ SameLock(c, d)
        /\ pc[c] = "body"
        /\ test_with_lock[c]
        /\ pc[d] = "panicked"
        /\ panic_msg[d] = AcquireMsg
        /\ attempts[d] >= 1
        /\ lock_file(c) \in tmp_dir

----------------------------------------------------------------------------
(* Properties of the asynchronous harness *)

\* How many tests of module m ended with the given status.
Tally(m, s) == Cardinality({t \in TestsOf(mod_names, m) : status[t] = s})

IsAsync(t) == mod_names[t[1]].test_metas[t[2]]

\* C27: in the asynchronous harness a test is started only from the state
\* in which it has not run, each return of a check function adds exactly one
\* to exactly one of the counters, and when the summary is reached every
\* test of the module has finished, passed + failed + ignored is the number
\* of tests announced, each counter is the number of tests with that
\* outcome, and the failing branch of the summary is taken iff failed > 0.
AsyncCountsEachTestOnce ==
    [][runner_kind = "tokio_runner" =>
         /\ \A t \in AllTests(mod_names) :
               /\ (status'[t] = "running" /\ status[t] # "running") =>
                     status[t] = "idle"
               /\ (status[t] = "running" /\ status'[t] # "running") =>
                     /\ Done(t)'
                     /\ passed' + failed' + ignored'
                           = passed + failed + ignored + 1
               /\ Done(t) => status'[t] = status[t]
         /\ main_pc' = "summary" =>
               /\ \A t \in TestsOf(mod_names, cur) : Done(t)'
               /\ passed' + failed' + ignored'
                     = Len(mod_names[cur].test_metas)
               /\ passed' = Tally(cur, "passed")'
               /\ failed' = Tally(cur, "failed")'
               /\ ignored' = Tally(cur, "ignored")'
         /\ (main_pc = "summary" /\ main_pc' # "summary") =>
               (main_pc' = "exited" <=> failed > 0)
    ]_vars

\* The summary of a module with an asynchronous and a synchronous test is
\* reached with one test passed, one failed and one skipped.
AsyncSummaryOfMixedModule ==
    /\ runner_kind = "tokio_runner"
    /\ main_pc = "summary"
    /\ \E t, u \in TestsOf(mod_names, cur) : IsAsync(t) /\ ~IsAsync(u)
    /\ passed = 1
    /\ failed = 1
    /\ ignored = 1

\* C28 as stated: the tests of a module never overlap and a test is started
\* only after every test declared before it in the module has finished.
AsyncDeclarationOrder ==
    runner_kind = "tokio_runner" =>
        /\ Cardinality({t \in AllTests(mod_names) : status[t] = "running"}) <= 1
        /\ \A t, u \in AllTests(mod_names) :
              (t[1] = u[1] /\ t[2] < u[2] /\ Started(u)) => Done(t)

\* t is called before u: the asynchronous tests come first, and tests of the
\* same kind keep the order of their declaration.
CalledBefore(t, u) ==
    /\ t[1] = u[1]
    /\ \/ IsAsync(t) /\ ~IsAsync(u)
       \/ IsAsync(t) = IsAsync(u) /\ t[2] < u[2]

\* C28: the tests of a module never overlap; the asynchronous tests run in
\* the order of their declaration, then the synchronous tests run in the
\* order of their declaration, each one only after the one before it has
\* finished.
AsyncThenSyncOrder ==
    runner_kind = "tokio_runner" =>
        /\ Cardinality({t \in AllTests(mod_names) : status[t] = "running"}) <= 1
        /\ \A t, u \in AllTests(mod_names) :
              (CalledBefore(t, u) /\ Started(u)) => Done(t)

\* A synchronous test declared first is running only now, after the
\* asynchronous test declared after it has finished.
AsyncRanBeforeEarlierSync ==
    /\ runner_kind = "tokio_runner"
    /\ \E t, u \in AllTests(mod_names) :
          /\ t[1] = u[1]
          /\ t[2] < u[2]
          /\ ~IsAsync(t)
          /\ IsAsync(u)
          /\ Done(u)
          /\ status[t] = "running"

\* C23 as stated: the modules run in list order and a failed test does not
\* keep the tests of the later modules from running, so that when the
\* program has ended every test of every listed module has finished.
AsyncFailureIsLocal ==
    runner_kind = "tokio_runner" =>
        /\ \A t, u \in AllTests(mod_names) :
              (t[1] < u[1] /\ Started(u)) => Done(t)
        /\ exit_status # Running => \A t \in AllTests(mod_names) : Done(t)

\* C30: in a module of the asynchronous harness that declares a fixture, a
\* test starts only while the one fixture is constructed and not released;
\* the fixture is released by the step that follows the last test; and it
\* has been released when the summary is reached and when the process has
\* exited from it, whether or not a test failed.
AsyncFixtureAroundTests ==
    [][(runner_kind = "tokio_runner" /\ cur \in FixtureModules) =>
         /\ \A t \in TestsOf(mod_names, cur) :
               (status'[t] = "running" /\ status[t] # "running") =>
                   /\ env_new[cur] = 1
                   /\ env_drop[cur] = 0
         /\ env_drop'[cur] # env_drop[cur] =>
               /\ \A t \in TestsOf(mod_names, cur) : Done(t)
               /\ env_drop'[cur] = 1
               /\ main_pc # "summary"
               /\ main_pc' = "summary"
         /\ main_pc' = "summary" => env_drop'[cur] = 1
         /\ (main_pc = "summary" /\ main_pc' = "exited") =>
               /\ env_drop'[cur] = 1
               /\ env_new'[cur] = 1
    ]_vars

\* The process exited from the summary of a fixture module in which one
\* test failed and one passed, with the fixture released.
AsyncFixtureReleasedBeforeExit ==
    /\ runner_kind = "tokio_runner"
    /\ cur \in FixtureModules
    /\ main_pc = "exited"
    /\ exit_status = 1
    /\ Tally(cur, "failed") = 1
    /\ Tally(cur, "passed") = 1
    /\ env_drop[cur] = 1

----------------------------------------------------------------------------
(* The runtime form of the timezone predicate *)

\* C25 as stated: for an argument the compile-time predicate accepts, the
\* runtime check function runs the body on a host exactly when the
\* compile-time predicate is satisfied on that host.
RuntimeTimezoneEquivalent ==
    (tz_pc = "done" /\ tz_result.tag = "returned"
       /\ Len(check_timezone(tz_attr, local_minus_utc).incorrect_tzs) = 0
       /\ rt_tz_result # Pending) =>
        (rt_tz_result.tag = "Ok" <=> tz_result.satisfied)

----------------------------------------------------------------------------
(* The module rewrite when the condition is satisfied *)

\* Among attrs there is `#[cfg(test)]`, or a cfg whose argument list names
\* test inside a group, such as `#[cfg(all(test, unix))]`.
CarriesCfgTest(attrs) ==
    \E k \in 1..Len(attrs) :
        attrs[k] = CfgTest \/ has_test_cfg(<<attrs[k]>>)

\* C24 as stated: when the condition on a module is satisfied the output
\* keeps the items of the module unchanged, and it carries the marker
\* `#[cfg(test)]` if and only if the original module carried it.
ModMarkerIffOriginal ==
    (input.tag = "ItemMod" /\ input.content.braced
       /\ fn_output.tag = "ItemMod" /\ check_condition.satisfied) =>
        /\ fn_output.content = input.content
        /\ fn_output.vis = input.vis
        /\ fn_output.ident = input.ident
        /\ CarriesCfgTest(fn_output.attrs) <=> CarriesCfgTest(input.attrs)

----------------------------------------------------------------------------
(* The core-count annotations on functions and on modules *)

\* C26 as stated: on a function and on a module alike, phy_core is
\* satisfied exactly when the physical core count reaches its argument and
\* words its reason for the physical cores, and cpu_core is satisfied
\* exactly when the logical core count reaches its argument and words its
\* reason for the cpu cores.
CoreFormsAgree ==
    (cond \in {"cpu_core", "phy_core"} /\ cond_result.tag = "returned") =>
        LET c == parse_usize(attr_str).v IN
        IF cond = "phy_core"
        THEN /\ cond_result.satisfied <=> host.physical >= c
             /\ cond_result.reason
                   = <<"because the physical cpu core less than ">> \o attr_str
        ELSE /\ cond_result.satisfied <=> host.cpus >= c
             /\ cond_result.reason
                   = <<"because the cpu core less than ">> \o attr_str

----------------------------------------------------------------------------
(* The check function of runtime_ignore_if *)

\* C21 as stated: the check function calls the predicate exactly once; with
\* a reason the body is not run and the test is skipped with the prefix
\* followed by exactly that reason; with no reason the body runs once and
\* the test succeeds exactly when the body did not return an error.
IgnoreIfContract ==
    rt_pc \in {"ignore_returned", "ignore_reported"} =>
        /\ ignore_calls = 1
        /\ ignore_function.some =>
              /\ rt_body_runs = 0
              /\ rt_ret = Err(RUNTIME_IGNORE_PREFIX \o ignore_function.text)
              /\ rt_pc = "ignore_reported" => rt_count = "ignored"
        /\ ~ignore_function.some =>
              /\ rt_body_runs = 1
              /\ rt_ret = Ok <=> rt_body.tag # "BodyErr"
              /\ rt_pc = "ignore_reported" =>
                    (rt_count = "passed" <=> rt_body.tag # "BodyErr")

====
